---------------------------- MODULE Spec2Model ----------------------------
(***************************************************************************)
(* Storyer front end: static/js/main.js, the floating save button script   *)
(* (unnamed/part_001) and templates/index.html, as a state machine.        *)
(*                                                                         *)
(* The page is single threaded.  One action is one run of an event         *)
(* listener (a click, a submit, a timer) or one settling of a fetch: the   *)
(* then / catch / finally callbacks of one request run back to back as     *)
(* microtasks, and alert() and confirm() block inside the listener.        *)
(*                                                                         *)
(* Strings of the page that are not ASCII are written as ASCII tags, with  *)
(* the text of the source in the comment beside them.                      *)
(***************************************************************************)
EXTENDS Integers, Sequences, FiniteSets, TLC

VARIABLES
    dom,     \* styles, classes, labels and contents the scripts write
    form,    \* the API configuration inputs, which only the user writes
    net,     \* the requests in flight, in the order they were issued
    timers,  \* the pending setTimeout callbacks and the time each has left
    event,   \* what the last listener run showed: alert, console, exception
    focus    \* the part of the page the user of this page load works with

vars == <<dom, form, net, timers, event, focus>>

-----------------------------------------------------------------------------
(* Bounds of the model *)

MaxPending == 2
MaxTranscript == 3
NumHistory == 2
MaxToasts == 2

-----------------------------------------------------------------------------
(* The template, templates/index.html *)

NavIds == {"home", "chat", "api-config", "settings"}

Stages == {"idle", "processing", "initializing_narrative", "narrating"}

\* Every id attribute of the template.
ElementIds ==
    {"analysis-custom", "analysis-custom-ollama", "analysis-custom-ollama-settings",
     "analysis-custom-online", "analysis-custom-online-settings",
     "analysis-custom-settings", "analysis-llama3", "analysis-mistral",
     "analysis-ollama-model-select", "analysis-online-model-name",
     "analysis-progress", "analysis-status", "api-config-form",
     "api-config-section", "chat-section", "close-narrative-btn",
     "dashboard-view", "enable-keyboard-shortcuts", "file-name-display",
     "global-save-button", "home-section", "initializing-narrative-card",
     "local-api-option", "max-tokens", "narrative-history", "narrative-view",
     "novel-config-card", "novel-file", "novel-title", "novel-upload-form",
     "ollama-api-config", "ollama-api-url", "online-api-config",
     "online-api-key", "online-api-option", "online-api-url",
     "processing-card", "refresh-models-btn", "refresh-models-status",
     "reset-app-btn", "save-game-btn", "save-toast", "send-action-btn",
     "settings-form", "settings-section", "show-typing-animation",
     "start-narrative-btn", "temperature", "temperature-value", "test-api-btn",
     "test-message", "test-result", "top-p", "top-p-value", "typing-speed",
     "typing-speed-value", "use-local-api", "use-online-api", "user-action",
     "writing-custom", "writing-custom-ollama", "writing-custom-ollama-settings",
     "writing-custom-online", "writing-custom-online-settings",
     "writing-custom-settings", "writing-llama3", "writing-mistral",
     "writing-ollama-model-select", "writing-online-model-name"}

\* document.getElementById(id) is null when the template has no such element.
HasElement(id) == id \in ElementIds

\* The buttons whose disabled property and label the scripts write.
Buttons ==
    {"test-api-btn", "start-narrative-btn", "send-action-btn", "save-game-btn",
     "refresh-models-btn"}

\* The label each button carries in the template.
TemplateLabel(b) ==
    CASE b = "test-api-btn"        -> "test-connection"      \* 测试连接
      [] b = "start-narrative-btn" -> "start-journey"        \* 开始旅程
      [] b = "send-action-btn"     -> "send"                 \* 发送
      [] b = "save-game-btn"       -> "save-game"            \* 保存游戏
      [] b = "refresh-models-btn"  -> "refresh-model-list"   \* 刷新模型列表

LoadLabel == "load"        \* 加载
DeleteLabel == "delete"    \* 删除

Items == 1 .. NumHistory

\* The speakers of the transcript.
SpeakerSystem == "system"  \* 系统
SpeakerUser == "user"      \* 用户

Entry(speaker, text) == [speaker |-> speaker, text |-> text]

\* An element shows when neither it nor an ancestor has display none.
Shown(display) == display # "none"

SectionShown(d, id) == Shown(d.section[id])

\* The three values of the model radio groups.
ModelNames == {"llama3", "mistral", "custom"}

CustomTypes == {"ollama", "online"}

\* The value of a select element: that of the selected option, the first
\* option when none is marked selected, the empty string without options.
SelectValue(options, wanted) ==
    IF \E j \in 1 .. Len(options) : options[j] = wanted THEN wanted
    ELSE IF options = <<>> THEN "" ELSE options[1]

\* The DOM the server renders for the application state srv (app_state).
TemplateDom(srv) ==
    [ active         |-> [n \in NavIds |-> n = "home"],
      section        |-> [n \in NavIds |-> IF n = "home" THEN "" ELSE "none"],
      dashboardView  |-> IF srv.app_stage # "narrating" THEN "block" ELSE "none",
      narrativeView  |-> IF srv.app_stage = "narrating" THEN "block" ELSE "none",
      processingCard |-> IF srv.app_stage = "processing" THEN "flex" ELSE "none",
      initCard       |-> IF srv.app_stage = "initializing_narrative"
                         THEN "flex" ELSE "none",
      transcript     |-> srv.narrative_history_display,
      userAction     |-> "",
      testMessage    |-> "",
      testResult     |-> [display |-> "none", text |-> ""],
      disabled       |-> [b \in Buttons |-> FALSE],
      label          |-> [b \in Buttons |-> TemplateLabel(b)],
      items          |-> 1 .. srv.history_conversations,
      path           |-> srv.file_path,
      loadBtn        |-> [i \in Items |-> [disabled |-> FALSE, label |-> LoadLabel]],
      deleteBtn      |-> [i \in Items |-> [disabled |-> FALSE, label |-> DeleteLabel]],
      listEmptyStates |-> 0,
      analysisSelect |-> [options |-> srv.ollama_models,
                          value |-> SelectValue(srv.ollama_models,
                                                srv.analysis_custom_ollama_model)],
      writingSelect  |-> [options |-> srv.ollama_models,
                          value |-> SelectValue(srv.ollama_models,
                                                srv.writing_custom_ollama_model)],
      analysisDisplay |-> srv.analysis_model_name,
      writingDisplay |-> srv.writing_model_name,
      saveButton     |-> "",
      saving         |-> FALSE,
      toastShown     |-> FALSE ]

\* The API configuration inputs the server renders: the checked radio of a
\* group is "" when the state names none of the group's values.
TemplateForm(srv) ==
    [ useOnline          |-> srv.use_online_api,
      ollamaUrl          |-> srv.ollama_api_url_config,
      onlineUrl          |-> srv.online_api_url,
      onlineKey          |-> srv.online_api_key,
      ollamaModel        |-> "",   \* ollama-model-select: not in the template
      onlineModel        |-> "",   \* online-model-name: not in the template
      analysisModel      |-> IF srv.analysis_model_name \in ModelNames
                             THEN srv.analysis_model_name ELSE "",
      analysisCustomType |-> IF srv.analysis_custom_type \in CustomTypes
                             THEN srv.analysis_custom_type ELSE "",
      analysisOnlineName |-> srv.analysis_custom_online_model,
      writingModel       |-> IF srv.writing_model_name \in ModelNames
                             THEN srv.writing_model_name ELSE "",
      writingCustomType  |-> IF srv.writing_custom_type \in CustomTypes
                             THEN srv.writing_custom_type ELSE "",
      writingOnlineName  |-> srv.writing_custom_online_model,
      ollamaApiConfig    |-> IF ~srv.use_online_api THEN "block" ELSE "none",
      onlineApiConfig    |-> IF srv.use_online_api THEN "block" ELSE "none",
      analysisCustomSettings |->
          IF srv.analysis_model_name = "custom" THEN "block" ELSE "none",
      analysisCustomOllamaSettings |->
          IF srv.analysis_custom_type = "ollama" THEN "block" ELSE "none",
      analysisCustomOnlineSettings |->
          IF srv.analysis_custom_type = "online" THEN "block" ELSE "none",
      writingCustomSettings |->
          IF srv.writing_model_name = "custom" THEN "block" ELSE "none",
      writingCustomOllamaSettings |->
          IF srv.writing_custom_type = "ollama" THEN "block" ELSE "none",
      writingCustomOnlineSettings |->
          IF srv.writing_custom_type = "online" THEN "block" ELSE "none" ]

\* An application state of the server: a fresh installation that talks to a
\* local Ollama, with a history of NumHistory conversations.
BaseState ==
    [ app_stage                    |-> "idle",
      narrative_history_display    |-> <<>>,
      history_conversations        |-> NumHistory,
      file_path                    |-> [i \in Items |-> "path"],
      ollama_models                |-> <<"m1">>,
      use_online_api               |-> FALSE,
      ollama_api_url_config        |-> "http://127.0.0.1:11434",
      online_api_url               |-> "",
      online_api_key               |-> "",
      analysis_model_name          |-> "llama3",
      analysis_custom_type         |-> "ollama",
      analysis_custom_ollama_model |-> "m1",
      analysis_custom_online_model |-> "",
      writing_model_name           |-> "llama3",
      writing_custom_type          |-> "ollama",
      writing_custom_ollama_model  |-> "m1",
      writing_custom_online_model  |-> "" ]

-----------------------------------------------------------------------------
(* What a listener run shows, and the requests *)

NoResponse == [outcome |-> "", error |-> "", text |-> "", models |-> <<>>]

\* What the page looked like when a request was issued.
Snapshot(d) == [transcript |-> d.transcript, userAction |-> d.userAction]

NoSnapshot == [transcript |-> <<>>, userAction |-> ""]

\* The record of a listener run h that showed nothing.
Ran(h) ==
    [h |-> h, ep |-> "", src |-> "", item |-> 0, resp |-> NoResponse,
     before |-> NoSnapshot, alert |-> "", console |-> "", threw |-> FALSE,
     issued |-> FALSE]

\* A request: its endpoint, the control that issued it (item: the history
\* item of a load or delete button), its body and the page before the
\* listener that issued it ran.
Request(ep, src, item, body, before) ==
    [ep |-> ep, src |-> src, item |-> item, body |-> body,
     before |-> Snapshot(before)]

NoBody == [none |-> TRUE]

Remove(s, i) == [j \in 1 .. (Len(s) - 1) |-> IF j < i THEN s[j] ELSE s[j + 1]]

\* The settled outcomes of a fetch: {success: true, ...}, {success: false,
\* error}, and a rejected fetch or a body that is not JSON.
Ok(text, models) == [outcome |-> "ok", error |-> "", text |-> text, models |-> models]

Failed(error) == [outcome |-> "fail", error |-> error, text |-> "", models |-> <<>>]

Rejected(error) == [outcome |-> "neterr", error |-> error, text |-> "", models |-> <<>>]

\* The TypeError of reading a property of null.
NullTypeError == "TypeError: Cannot read properties of null"

SetButton(d, b, off, text) ==
    [d EXCEPT !.disabled[b] = off, !.label[b] = text]

-----------------------------------------------------------------------------
(* Page load *)

\* The DOMContentLoaded listener of the floating save button.
OnLoadSaveButton(d) ==
    IF ~HasElement("global-save-button") THEN d
    ELSE [d EXCEPT !.saveButton =
            IF HasElement("api-config-section") /\ SectionShown(d, "api-config")
            THEN "flex" ELSE "none"]

RefreshDelayMs == 500

ToastMs == 3000

\* Time advances in steps of the shorter of the two delays.
TickMs == RefreshDelayMs

LoadedTimers == [load |-> RefreshDelayMs \div TickMs, toast |-> <<>>]

\* The page once both DOMContentLoaded listeners have run.
Loaded(srv) ==
    /\ dom = OnLoadSaveButton(TemplateDom(srv))
    /\ form = TemplateForm(srv)
    /\ net = <<>>
    /\ timers = LoadedTimers
    /\ event = Ran("DOMContentLoaded")

-----------------------------------------------------------------------------
(* Navigation: main.js and the floating save button script both listen to  *)
(* the click of every nav item; main.js was loaded first and runs first.   *)

\* Faulty variant: the listener shows the section without hiding the others.
NavListenerMainKeepsSections(d, id) ==
    [d EXCEPT !.active = [n \in NavIds |-> n = id],
              !.section = [n \in NavIds |-> IF n = id THEN "block" ELSE @[n]]]

\* main.js: the clicked item alone is active, its section alone is shown.
NavListenerMain(d, id) ==
    [d EXCEPT !.active = [n \in NavIds |-> n = id],
              !.section = [n \in NavIds |-> IF n = id THEN "block" ELSE "none"]]

\* Floating save button script: the button shows on the api-config item only.
NavListenerSave(d, id) ==
    [d EXCEPT !.saveButton = IF id = "api-config" THEN "flex" ELSE "none"]

RefreshBusyLabel == "fetching-model-list..."   \* 正在获取模型列表...

\* refreshOllamaModels returns at once when the Ollama URL input is empty.
RefreshSkipped(f) == f.ollamaUrl = ""

\* refreshOllamaModels, up to its fetch: the refresh button goes busy.
RefreshDom(d, f) ==
    IF RefreshSkipped(f) \/ ~HasElement("refresh-models-btn") THEN d
    ELSE SetButton(d, "refresh-models-btn", TRUE, RefreshBusyLabel)

\* Faulty variant: refreshOllamaModels fetches whatever the URL input holds.
RefreshNetAnyUrl(n, f, before) ==
    Append(n, Request("/api/refresh_ollama_models", "refresh-models-btn", 0,
                      [api_url |-> f.ollamaUrl], before))

\* refreshOllamaModels: the request it issues, if any.
RefreshNet(n, f, before) ==
    IF RefreshSkipped(f) THEN n
    ELSE Append(n, Request("/api/refresh_ollama_models", "refresh-models-btn", 0,
                           [api_url |-> f.ollamaUrl], before))

\* What a run of refreshOllamaModels from listener h shows.
RefreshRan(h, f) ==
    IF RefreshSkipped(f) THEN [Ran(h) EXCEPT !.console = "log"]
    ELSE [Ran(h) EXCEPT !.ep = "/api/refresh_ollama_models", !.issued = TRUE]

\* The DOM after both click listeners of nav item id.
NavDom(d, f, id) ==
    NavListenerSave(
        IF id = "api-config" THEN RefreshDom(NavListenerMain(d, id), f)
        ELSE NavListenerMain(d, id),
        id)

\* A click on a nav item of the side bar.
NavItemClick(id) ==
    /\ UNCHANGED focus
    /\ (id = "api-config" /\ ~RefreshSkipped(form)) => Len(net) < MaxPending
    /\ dom' = NavDom(dom, form, id)
    /\ net' = IF id = "api-config" THEN RefreshNet(net, form, dom) ELSE net
    /\ event' = IF id = "api-config" THEN RefreshRan("nav-item.click", form)
                ELSE Ran("nav-item.click")
    /\ UNCHANGED <<form, timers>>

\* A click on the refresh button, which shows in the api-config section.
RefreshModelsClick ==
    /\ UNCHANGED focus
    /\ SectionShown(dom, "api-config")
    /\ ~dom.disabled["refresh-models-btn"]
    /\ ~RefreshSkipped(form) => Len(net) < MaxPending
    /\ dom' = RefreshDom(dom, form)
    /\ net' = RefreshNet(net, form, dom)
    /\ event' = RefreshRan("refresh-models-btn.click", form)
    /\ UNCHANGED <<form, timers>>

\* The timer set at page load runs refreshOllamaModels once.
LoadTimerFire ==
    /\ UNCHANGED focus
    /\ timers.load = 0
    /\ ~RefreshSkipped(form) => Len(net) < MaxPending
    /\ dom' = RefreshDom(dom, form)
    /\ net' = RefreshNet(net, form, dom)
    /\ timers' = [timers EXCEPT !.load = -1]
    /\ event' = RefreshRan("setTimeout.refreshOllamaModels", form)
    /\ UNCHANGED form

\* A select whose options were replaced shows its first option.
Repopulated(models) ==
    [options |-> models, value |-> IF models = <<>> THEN "" ELSE models[1]]

\* Faulty variant: the success branch keeps the options it finds and fills
\* the analysis list only.
RefreshSettleDomKeepsOptions(d, resp) ==
    SetButton(IF resp.outcome # "ok" THEN d
              ELSE [d EXCEPT !.analysisSelect =
                                 Repopulated(@.options \o resp.models)],
              "refresh-models-btn", FALSE, TemplateLabel("refresh-models-btn"))

\* Faulty variant: a response that finds the button enabled again, another
\* request having settled before it, is dropped.
RefreshSettleDomFirstWins(d, resp) ==
    SetButton(IF resp.outcome = "ok" /\ d.disabled["refresh-models-btn"]
              THEN [d EXCEPT !.analysisSelect = Repopulated(resp.models),
                             !.writingSelect = Repopulated(resp.models)]
              ELSE d,
              "refresh-models-btn", FALSE, TemplateLabel("refresh-models-btn"))

\* The then / catch / finally of refreshOllamaModels on the DOM.
RefreshSettleDom(d, resp) ==
    LET filled ==
          IF resp.outcome # "ok" THEN d
          ELSE [d EXCEPT
                  !.analysisSelect =
                      IF HasElement("analysis-ollama-model-select")
                      THEN Repopulated(resp.models) ELSE @,
                  !.writingSelect =
                      IF HasElement("writing-ollama-model-select")
                      THEN Repopulated(resp.models) ELSE @]
    IN  IF HasElement("refresh-models-btn")
        THEN SetButton(filled, "refresh-models-btn", FALSE,
                       TemplateLabel("refresh-models-btn"))
        ELSE filled

\* What the settling of request r of listener h with resp shows by default.
Settled(h, r, resp) ==
    [Ran(h) EXCEPT !.ep = r.ep, !.src = r.src, !.item = r.item, !.resp = resp,
                   !.before = r.before]

\* A refresh request settles: failures go to the console only.
RefreshSettle(i, resp) ==
    /\ UNCHANGED focus
    /\ i \in 1 .. Len(net)
    /\ net[i].ep = "/api/refresh_ollama_models"
    /\ dom' = RefreshSettleDom(dom, resp)
    /\ net' = Remove(net, i)
    /\ event' = [Settled("refreshOllamaModels.settle", net[i], resp) EXCEPT
                   !.console = IF resp.outcome = "ok" THEN "log" ELSE "error"]
    /\ UNCHANGED <<form, timers>>

-----------------------------------------------------------------------------
(* History: the load and delete buttons of each conversation *)

InvalidPathAlert == "invalid-history-path"    \* 历史对话文件路径无效
LoadBusyLabel == "loading..."                 \* 加载中...
LoadFailedAlert == "load-history-failed: "    \* 加载历史对话失败:
LoadErrorAlert == "load-history-error: "      \* 加载历史对话出错:

\* A click on the load button of conversation i, shown in the chat section.
LoadChatClick(i) ==
    /\ UNCHANGED focus
    /\ SectionShown(dom, "chat")
    /\ i \in dom.items
    /\ ~dom.loadBtn[i].disabled
    /\ IF dom.path[i] = ""
       THEN /\ event' = [Ran("load-chat-btn.click") EXCEPT
                           !.item = i, !.alert = InvalidPathAlert]
            /\ UNCHANGED <<dom, net>>
       ELSE /\ Len(net) < MaxPending
            /\ dom' = [dom EXCEPT !.loadBtn[i] =
                         [disabled |-> TRUE, label |-> LoadBusyLabel]]
            /\ net' = Append(net, Request("/api/history/load", "load-chat-btn", i,
                                          [file_path |-> dom.path[i]], dom))
            /\ event' = [Ran("load-chat-btn.click") EXCEPT
                           !.ep = "/api/history/load", !.item = i, !.issued = TRUE]
    /\ UNCHANGED <<form, timers>>

\* Faulty variant: the success branch switches to the home section as main.js does,
\* without the click that the floating save button listens to.
LoadSuccessDomNoClick(d, f) ==
    [NavListenerMain(d, "home") EXCEPT !.initCard = "flex"]

\* Faulty variant: the success branch stops after the click on the home item.
LoadSuccessDomNoCard(d, f) == NavDom(d, f, "home")

\* The success branch of the load: the home item is clicked, which runs both
\* nav listeners, and the initializing card is shown.
LoadSuccessDom(d, f) ==
    [NavDom(d, f, "home") EXCEPT !.initCard = "flex"]

\* The then / catch / finally of a load request on the DOM.
LoadSettleDom(d, f, r, resp) ==
    [(IF resp.outcome = "ok" THEN LoadSuccessDom(d, f) ELSE d) EXCEPT
        !.loadBtn[r.item] = [disabled |-> FALSE, label |-> LoadLabel]]

LoadChatSettle(i, resp) ==
    /\ UNCHANGED focus
    /\ i \in 1 .. Len(net)
    /\ net[i].ep = "/api/history/load"
    /\ dom' = LoadSettleDom(dom, form, net[i], resp)
    /\ net' = Remove(net, i)
    /\ event' = [Settled("load-chat-btn.settle", net[i], resp) EXCEPT
                   !.alert = CASE resp.outcome = "ok" -> ""
                               [] resp.outcome = "fail" -> LoadFailedAlert \o resp.error
                               [] OTHER -> LoadErrorAlert \o resp.error]
    /\ UNCHANGED <<form, timers>>

-----------------------------------------------------------------------------
(* The configuration draft and the two controls that send it *)

NoFields == [x \in {} |-> x]

\* One field of a draft, when the collector sets it.
Field(set, name, value) == IF set THEN name :> value ELSE NoFields

\* Faulty variant: the empty string is kept.
OrElseKeepsEmpty(value, fallback) == value

\* value || fallback of JavaScript, on strings.
OrElse(value, fallback) == IF value = "" THEN fallback ELSE value

DefaultOllamaUrl == "http://127.0.0.1:11434"

\* collectGlobalConfig of the floating save button script.  The template has
\* no ollama-model-select and no online-model-name element.
collectGlobalConfig(d, f) ==
    LET useOnlineApi == IF HasElement("use-online-api") THEN f.useOnline ELSE FALSE
        api ==
          IF ~useOnlineApi
          THEN Field(TRUE, "ollama_api_url",
                     IF HasElement("ollama-api-url")
                     THEN OrElse(f.ollamaUrl, DefaultOllamaUrl) ELSE DefaultOllamaUrl)
               @@ Field(HasElement("ollama-model-select"), "selected_ollama_model",
                        f.ollamaModel)
          ELSE Field(TRUE, "online_api_url",
                     IF HasElement("online-api-url") THEN f.onlineUrl ELSE "")
               @@ Field(TRUE, "online_api_key",
                        IF HasElement("online-api-key") THEN f.onlineKey ELSE "")
               @@ Field(TRUE, "online_api_model",
                        IF HasElement("online-model-name") THEN f.onlineModel ELSE "")
        analysis ==
          Field(f.analysisModel # "", "analysis_model_name", f.analysisModel)
          @@ Field(f.analysisModel = "custom" /\ f.analysisCustomType # "",
                   "analysis_custom_type", f.analysisCustomType)
          @@ Field(f.analysisModel = "custom" /\ f.analysisCustomType = "ollama",
                   "analysis_custom_ollama_model", d.analysisSelect.value)
          @@ Field(f.analysisModel = "custom" /\ f.analysisCustomType = "online",
                   "analysis_custom_online_model", f.analysisOnlineName)
        writing ==
          Field(f.writingModel # "", "writing_model_name", f.writingModel)
          @@ Field(f.writingModel = "custom" /\ f.writingCustomType # "",
                   "writing_custom_type", f.writingCustomType)
          @@ Field(f.writingModel = "custom" /\ f.writingCustomType = "ollama",
                   "writing_custom_ollama_model", d.writingSelect.value)
          @@ Field(f.writingModel = "custom" /\ f.writingCustomType = "online",
                   "writing_custom_online_model", f.writingOnlineName)
    IN  ("use_online_api" :> useOnlineApi) @@ api @@ analysis @@ writing

\* Whether the submit listener of the API configuration form throws while it
\* collects: it reads .value of elements and checked radios without a test.
FormCollectThrows(f) ==
    \/ f.useOnline /\ ~HasElement("online-model-name")
    \/ f.analysisModel = ""
    \/ f.analysisModel = "custom" /\ f.analysisCustomType = ""
    \/ f.writingModel = ""
    \/ f.writingModel = "custom" /\ f.writingCustomType = ""

\* Faulty variant: the inputs of both API types are read, whichever is
\* checked.
collectFormConfigBothBranches(d, f) ==
    ("use_online_api" :> f.useOnline)
    @@ ("ollama_api_url" :> f.ollamaUrl)
    @@ ("online_api_url" :> f.onlineUrl)
    @@ ("online_api_key" :> f.onlineKey)
    @@ ("analysis_model_name" :> f.analysisModel)
    @@ ("writing_model_name" :> f.writingModel)

\* The draft the submit listener of the API configuration form collects,
\* when it does not throw.
collectFormConfig(d, f) ==
    LET api ==
          IF ~f.useOnline
          THEN Field(TRUE, "ollama_api_url", f.ollamaUrl)
               @@ Field(HasElement("ollama-model-select"), "selected_ollama_model",
                        f.ollamaModel)
          ELSE Field(TRUE, "online_api_url", f.onlineUrl)
               @@ Field(TRUE, "online_api_key", f.onlineKey)
               @@ Field(TRUE, "online_api_model", f.onlineModel)
        analysis ==
          Field(TRUE, "analysis_model_name", f.analysisModel)
          @@ Field(f.analysisModel = "custom", "analysis_custom_type",
                   f.analysisCustomType)
          @@ Field(f.analysisModel = "custom" /\ f.analysisCustomType = "ollama",
                   "analysis_custom_ollama_model", d.analysisSelect.value)
          @@ Field(f.analysisModel = "custom" /\ f.analysisCustomType # "ollama",
                   "analysis_custom_online_model", f.analysisOnlineName)
        writing ==
          Field(TRUE, "writing_model_name", f.writingModel)
          @@ Field(f.writingModel = "custom", "writing_custom_type",
                   f.writingCustomType)
          @@ Field(f.writingModel = "custom" /\ f.writingCustomType = "ollama",
                   "writing_custom_ollama_model", d.writingSelect.value)
          @@ Field(f.writingModel = "custom" /\ f.writingCustomType # "ollama",
                   "writing_custom_online_model", f.writingOnlineName)
    IN  ("use_online_api" :> f.useOnline) @@ api @@ analysis @@ writing

\* textContent = config.name: a field the draft lacks reads as undefined,
\* which textContent, a nullable string, takes as null: the text is emptied.
DraftText(config, name) ==
    IF name \in DOMAIN config THEN config[name] ELSE ""

\* Faulty variant: both displays are given the analysis model.
updateModelDisplayAnalysisOnly(d, config) ==
    [d EXCEPT !.analysisDisplay = DraftText(config, "analysis_model_name"),
              !.writingDisplay = DraftText(config, "analysis_model_name")]

\* updateModelDisplay, and the same lines of the form's success branch.
updateModelDisplay(d, config) ==
    [d EXCEPT !.analysisDisplay = DraftText(config, "analysis_model_name"),
              !.writingDisplay = DraftText(config, "writing_model_name")]

ConfigSavedAlert == "api-config-saved"               \* API配置已保存
ConfigFailedAlert == "save-api-config-failed: "      \* 保存API配置失败:
ConfigErrorAlert == "save-api-config-error: "        \* 保存API配置出错:

\* The submit event of the API configuration form.  The listener disables
\* nothing; a throw while collecting ends it before the fetch.
ApiConfigSubmit ==
    /\ UNCHANGED focus
    /\ SectionShown(dom, "api-config")
    /\ IF FormCollectThrows(form)
       THEN /\ event' = [Ran("api-config-form.submit") EXCEPT !.threw = TRUE]
            /\ UNCHANGED net
       ELSE /\ Len(net) < MaxPending
            /\ net' = Append(net, Request("/api/update_api_config", "api-config-form",
                                          0, collectFormConfig(dom, form), dom))
            /\ event' = [Ran("api-config-form.submit") EXCEPT
                           !.ep = "/api/update_api_config", !.issued = TRUE]
    /\ UNCHANGED <<dom, form, timers>>

ApiConfigSettleDom(d, r, resp) ==
    IF resp.outcome = "ok" THEN updateModelDisplay(d, r.body) ELSE d

ApiConfigSettle(i, resp) ==
    /\ UNCHANGED focus
    /\ i \in 1 .. Len(net)
    /\ net[i].ep = "/api/update_api_config"
    /\ net[i].src = "api-config-form"
    /\ dom' = ApiConfigSettleDom(dom, net[i], resp)
    /\ net' = Remove(net, i)
    /\ event' = [Settled("api-config-form.settle", net[i], resp) EXCEPT
                   !.alert = CASE resp.outcome = "ok" -> ConfigSavedAlert
                               [] resp.outcome = "fail" -> ConfigFailedAlert \o resp.error
                               [] OTHER -> ConfigErrorAlert \o resp.error]
    /\ UNCHANGED <<form, timers>>

GlobalFailedAlert == "save-global-settings-failed: "   \* 保存全局设置失败:
GlobalErrorAlert == "save-global-settings-error: "     \* 保存全局设置出错:

\* Faulty variant: no guard against a click while saving.
SaveClickNeverIgnored(d) == FALSE

\* The guard of the floating save button: a click while saving does nothing.
SaveClickIgnored(d) == d.saving

\* Faulty variant: collecting takes the chosen option out of the select.
SaveClickDomResetsSelect(d) ==
    IF SaveClickIgnored(d) THEN d
    ELSE [d EXCEPT !.saving = TRUE, !.analysisSelect.value = ""]

\* The floating save button's click listener on the DOM.
SaveClickDom(d) == IF SaveClickIgnored(d) THEN d ELSE [d EXCEPT !.saving = TRUE]

\* The request of the floating save button's click listener, if any.
SaveClickNet(n, d, f) ==
    IF SaveClickIgnored(d) THEN n
    ELSE Append(n, Request("/api/update_api_config", "global-save-button", 0,
                           collectGlobalConfig(d, f), d))

\* A click on the floating save button, which shows while its display is
\* not none.
GlobalSaveClick ==
    /\ UNCHANGED focus
    /\ Shown(dom.saveButton)
    /\ ~SaveClickIgnored(dom) =>
          Len(net) < MaxPending /\ Len(timers.toast) < MaxToasts
    /\ dom' = SaveClickDom(dom)
    /\ net' = SaveClickNet(net, dom, form)
    /\ event' = IF SaveClickIgnored(dom) THEN Ran("global-save-button.click")
                ELSE [Ran("global-save-button.click") EXCEPT
                        !.ep = "/api/update_api_config", !.issued = TRUE]
    /\ UNCHANGED <<form, timers>>

\* showSaveToast on the DOM; its timer is set in GlobalSaveSettle.
showSaveToast(d) == [d EXCEPT !.toastShown = TRUE]

\* The finally of the floating save: the saving class is removed.
SaveFinally(d) == [d EXCEPT !.saving = FALSE]

\* Faulty variant: the saving class is removed in the success branch, not in finally.
SaveSettleDomNoFinally(d, r, resp) ==
    IF resp.outcome = "ok"
    THEN SaveFinally(showSaveToast(updateModelDisplay(d, r.body))) ELSE d

\* The then / catch / finally of the floating save on the DOM.
SaveSettleDom(d, r, resp) ==
    SaveFinally(IF resp.outcome = "ok"
                THEN showSaveToast(updateModelDisplay(d, r.body)) ELSE d)

\* The timers after the settling: a success sets one more of ToastMs.
SaveSettleTimers(t, resp) ==
    IF resp.outcome = "ok"
    THEN [t EXCEPT !.toast = Append(@, ToastMs \div TickMs)] ELSE t

GlobalSaveSettle(i, resp) ==
    /\ UNCHANGED focus
    /\ i \in 1 .. Len(net)
    /\ net[i].ep = "/api/update_api_config"
    /\ net[i].src = "global-save-button"
    /\ dom' = SaveSettleDom(dom, net[i], resp)
    /\ timers' = SaveSettleTimers(timers, resp)
    /\ net' = Remove(net, i)
    /\ event' = [Settled("global-save-button.settle", net[i], resp) EXCEPT
                   !.alert = CASE resp.outcome = "ok" -> ""
                               [] resp.outcome = "fail" -> GlobalFailedAlert \o resp.error
                               [] OTHER -> GlobalErrorAlert \o resp.error]
    /\ UNCHANGED form

\* The callback of a toast timer: the show class is removed.
ToastTimerDom(d) == [d EXCEPT !.toastShown = FALSE]

\* The oldest toast timer is due and runs.
ToastTimerFire ==
    /\ UNCHANGED focus
    /\ timers.toast # <<>>
    /\ timers.toast[1] = 0
    /\ dom' = ToastTimerDom(dom)
    /\ timers' = [timers EXCEPT !.toast = Tail(@)]
    /\ event' = Ran("setTimeout.hideToast")
    /\ UNCHANGED <<form, net>>

\* TickMs pass: possible while a timer is pending and none is due.
Tick ==
    /\ UNCHANGED focus
    /\ timers.load > 0 \/ timers.toast # <<>>
    /\ timers.load # 0
    /\ \A j \in 1 .. Len(timers.toast) : timers.toast[j] > 0
    /\ timers' = [load |-> IF timers.load > 0 THEN timers.load - 1 ELSE timers.load,
                  toast |-> [j \in 1 .. Len(timers.toast) |-> timers.toast[j] - 1]]
    /\ event' = Ran("tick")
    /\ UNCHANGED <<dom, form, net>>

-----------------------------------------------------------------------------
(* API test, settings and reset *)

NoTestMessageAlert == "enter-a-test-message"   \* 请输入测试消息
TestBusyLabel == "testing..."                  \* 测试中...
TestConnecting == "connecting-to-api..."       \* 正在连接API...
TestOkText == "test-ok-response: "             \* 测试成功！响应:
TestFailedText == "test-failed: "              \* 测试失败:
TestErrorText == "test-error: "                \* 测试出错:

\* The user types into the test message input of the api-config section.
TypeTestMessage(v) ==
    /\ UNCHANGED focus
    /\ SectionShown(dom, "api-config")
    /\ dom.testMessage # v
    /\ dom' = [dom EXCEPT !.testMessage = v]
    /\ event' = Ran("test-message.input")
    /\ UNCHANGED <<form, net, timers>>

\* Faulty variant: the listener shows the connecting text and leaves the button alone.
TestClickDomNotBusy(d) ==
    [d EXCEPT !.testResult = [display |-> "block", text |-> TestConnecting]]

\* The test button's click listener on the DOM, past its guard.
TestClickDom(d) ==
    [SetButton(d, "test-api-btn", TRUE, TestBusyLabel) EXCEPT
        !.testResult = [display |-> "block", text |-> TestConnecting]]

TestApiClick ==
    /\ UNCHANGED focus
    /\ SectionShown(dom, "api-config")
    /\ ~dom.disabled["test-api-btn"]
    /\ IF dom.testMessage = ""
       THEN /\ event' = [Ran("test-api-btn.click") EXCEPT !.alert = NoTestMessageAlert]
            /\ UNCHANGED <<dom, net>>
       ELSE /\ Len(net) < MaxPending
            /\ dom' = TestClickDom(dom)
            /\ net' = Append(net, Request("/api/test_api", "test-api-btn", 0,
                                          [message |-> dom.testMessage], dom))
            /\ event' = [Ran("test-api-btn.click") EXCEPT
                           !.ep = "/api/test_api", !.issued = TRUE]
    /\ UNCHANGED <<form, timers>>

\* The inline text a settled test shows.
TestResultText(resp) ==
    CASE resp.outcome = "ok" -> TestOkText \o resp.text
      [] resp.outcome = "fail" -> TestFailedText \o resp.error
      [] OTHER -> TestErrorText \o resp.error

\* The then / catch / finally of the test on the DOM.
TestSettleDom(d, resp) ==
    SetButton([d EXCEPT !.testResult.text = TestResultText(resp)],
              "test-api-btn", FALSE, TemplateLabel("test-api-btn"))

TestApiSettle(i, resp) ==
    /\ UNCHANGED focus
    /\ i \in 1 .. Len(net)
    /\ net[i].ep = "/api/test_api"
    /\ dom' = TestSettleDom(dom, resp)
    /\ net' = Remove(net, i)
    /\ event' = Settled("test-api-btn.settle", net[i], resp)
    /\ UNCHANGED <<form, timers>>

SettingsSavedAlert == "settings-saved"           \* 设置已保存
SettingsFailedAlert == "save-settings-failed"    \* 保存设置失败
SettingsErrorAlert == "save-settings-error: "    \* 保存设置出错:

\* The submit of the settings form: the listener writes nothing to the DOM.
\* The six generation settings it sends are not modelled.
SettingsSubmit ==
    /\ UNCHANGED focus
    /\ SectionShown(dom, "settings")
    /\ Len(net) < MaxPending
    /\ net' = Append(net, Request("/update_settings", "settings-form", 0,
                                  [settings |-> TRUE], dom))
    /\ event' = [Ran("settings-form.submit") EXCEPT
                   !.ep = "/update_settings", !.issued = TRUE]
    /\ UNCHANGED <<dom, form, timers>>

\* Faulty variant: only a saved form is reported.
SettingsAlertOnSuccessOnly(resp) ==
    IF resp.outcome = "ok" THEN SettingsSavedAlert ELSE ""

\* The alert of a settled settings save: a failure shows a fixed text.
SettingsAlert(resp) ==
    CASE resp.outcome = "ok" -> SettingsSavedAlert
      [] resp.outcome = "fail" -> SettingsFailedAlert
      [] OTHER -> SettingsErrorAlert \o resp.error

SettingsSettle(i, resp) ==
    /\ UNCHANGED focus
    /\ i \in 1 .. Len(net)
    /\ net[i].ep = "/update_settings"
    /\ net' = Remove(net, i)
    /\ event' = [Settled("settings-form.settle", net[i], resp) EXCEPT
                   !.alert = SettingsAlert(resp)]
    /\ UNCHANGED <<dom, form, timers>>

ResetDoneAlert == "app-reset"              \* 应用已重置
ResetFailedAlert == "reset-app-failed"     \* 重置应用失败
ResetErrorAlert == "reset-app-error: "     \* 重置应用出错:

\* A click on the reset button; the user answers the confirm dialog.
ResetAppClick(confirmed) ==
    /\ UNCHANGED focus
    /\ SectionShown(dom, "settings")
    /\ IF confirmed
       THEN /\ Len(net) < MaxPending
            /\ net' = Append(net, Request("/reset_journey", "reset-app-btn", 0,
                                          NoBody, dom))
            /\ event' = [Ran("reset-app-btn.click") EXCEPT
                           !.ep = "/reset_journey", !.issued = TRUE]
       ELSE /\ event' = Ran("reset-app-btn.click")
            /\ UNCHANGED net
    /\ UNCHANGED <<dom, form, timers>>

\* The alert of a settled reset: a failure shows a fixed text.
ResetAlert(resp) ==
    CASE resp.outcome = "ok" -> ResetDoneAlert
      [] resp.outcome = "fail" -> ResetFailedAlert
      [] OTHER -> ResetErrorAlert \o resp.error

\* A reset settles.  On success the page reloads: the server renders state
\* srv, and the requests and timers of the old page are gone.
ResetAppSettle(i, resp, srv) ==
    /\ UNCHANGED focus
    /\ i \in 1 .. Len(net)
    /\ net[i].ep = "/reset_journey"
    /\ event' = [Settled("reset-app-btn.settle", net[i], resp) EXCEPT
                   !.alert = ResetAlert(resp)]
    /\ IF resp.outcome = "ok"
       THEN /\ dom' = OnLoadSaveButton(TemplateDom(srv))
            /\ form' = TemplateForm(srv)
            /\ net' = <<>>
            /\ timers' = LoadedTimers
       ELSE /\ net' = Remove(net, i)
            /\ UNCHANGED <<dom, form, timers>>

-----------------------------------------------------------------------------
(* Novel upload and the narrative *)

\* Faulty variant: only the length of the name is compared.
EndsWithLength(name, suffix) == Len(name) >= Len(suffix)

EndsWith(name, suffix) ==
    /\ Len(name) >= Len(suffix)
    /\ SubSeq(name, Len(name) - Len(suffix) + 1, Len(name)) = suffix

DotTxt == <<".", "t", "x", "t">>

NoFile == <<>>

NoFileAlert == "choose-a-novel-file"          \* 请选择小说文件
NotTxtAlert == "only-txt-supported"           \* 只支持TXT格式的文件
UploadFailedAlert == "process-novel-failed: " \* 处理小说失败:
UploadErrorAlert == "upload-novel-error: "    \* 上传小说出错:

\* The upload form shows in the dashboard view of the home section.
UploadShown(d) == SectionShown(d, "home") /\ Shown(d.dashboardView)

\* The submit of the upload form with the chosen file (NoFile: none chosen).
NovelUploadSubmit(file) ==
    /\ UNCHANGED focus
    /\ UploadShown(dom)
    /\ IF file = NoFile \/ ~EndsWith(file, DotTxt)
       THEN /\ event' = [Ran("novel-upload-form.submit") EXCEPT
                           !.alert = IF file = NoFile THEN NoFileAlert ELSE NotTxtAlert]
            /\ UNCHANGED <<dom, net>>
       ELSE /\ Len(net) < MaxPending
            /\ dom' = [dom EXCEPT !.processingCard = "flex"]
            /\ net' = Append(net, Request("/upload_novel", "novel-upload-form", 0,
                                          [novel_file |-> file], dom))
            /\ event' = [Ran("novel-upload-form.submit") EXCEPT
                           !.ep = "/upload_novel", !.issued = TRUE]
    /\ UNCHANGED <<form, timers>>

\* Faulty variant: only the success branch hides the processing card.
UploadSettleDomHidesOnSuccess(d, resp) ==
    IF resp.outcome = "ok"
    THEN [d EXCEPT !.processingCard = "none", !.initCard = "flex"]
    ELSE d

\* The then / catch of the upload on the DOM: every branch hides the
\* processing card, success shows the initializing card.
UploadSettleDom(d, resp) ==
    IF resp.outcome = "ok"
    THEN [d EXCEPT !.processingCard = "none", !.initCard = "flex"]
    ELSE [d EXCEPT !.processingCard = "none"]

NovelUploadSettle(i, resp) ==
    /\ UNCHANGED focus
    /\ i \in 1 .. Len(net)
    /\ net[i].ep = "/upload_novel"
    /\ dom' = UploadSettleDom(dom, resp)
    /\ net' = Remove(net, i)
    /\ event' = [Settled("novel-upload-form.settle", net[i], resp) EXCEPT
                   !.alert = CASE resp.outcome = "ok" -> ""
                               [] resp.outcome = "fail" -> UploadFailedAlert \o resp.error
                               [] OTHER -> UploadErrorAlert \o resp.error]
    /\ UNCHANGED <<form, timers>>

StartBusyLabel == "initializing..."              \* 初始化中...
StartFailedAlert == "init-narrative-failed: "    \* 初始化叙事失败:
StartErrorAlert == "init-narrative-error: "      \* 初始化叙事出错:

\* The start button shows inside the initializing card of the home section.
StartShown(d) == SectionShown(d, "home") /\ Shown(d.initCard)

StartNarrativeClick ==
    /\ UNCHANGED focus
    /\ StartShown(dom)
    /\ ~dom.disabled["start-narrative-btn"]
    /\ Len(net) < MaxPending
    /\ dom' = SetButton(dom, "start-narrative-btn", TRUE, StartBusyLabel)
    /\ net' = Append(net, Request("/start_narrative", "start-narrative-btn", 0,
                                  NoBody, dom))
    /\ event' = [Ran("start-narrative-btn.click") EXCEPT
                   !.ep = "/start_narrative", !.issued = TRUE]
    /\ UNCHANGED <<form, timers>>

\* The id under which the scripts look up the narrative panel; the template
\* names that panel narrative-view.
NarrativeCardId == "narrative-card"

\* The success branch throws after it hid the initializing card when
\* getElementById(NarrativeCardId) is null.
StartSuccessThrows == ~HasElement(NarrativeCardId)

\* The button as the failure branch and the catch leave it.
StartRestored(d) ==
    SetButton(d, "start-narrative-btn", FALSE, TemplateLabel("start-narrative-btn"))

\* Faulty variant: the success branch finds its panel and appends the
\* initial narrative.
StartSuccessDomAppends(d, resp) ==
    [d EXCEPT !.initCard = "none", !.narrativeView = "flex",
              !.transcript = Append(@, Entry(SpeakerSystem, resp.text))]

\* The success branch: hide the initializing card, show the narrative card,
\* append the initial narrative.  The throw skips what follows it, and the
\* catch restores the button.
StartSuccessDom(d, resp) ==
    LET hidden == [d EXCEPT !.initCard = "none"]
    IN  IF StartSuccessThrows THEN StartRestored(hidden)
        ELSE [hidden EXCEPT
                !.narrativeView = "flex",
                !.transcript = Append(@, Entry(SpeakerSystem, resp.text))]

\* The then / catch of the start request on the DOM.
StartSettleDom(d, resp) ==
    IF resp.outcome = "ok" THEN StartSuccessDom(d, resp) ELSE StartRestored(d)

StartNarrativeSettle(i, resp) ==
    /\ UNCHANGED focus
    /\ i \in 1 .. Len(net)
    /\ net[i].ep = "/start_narrative"
    /\ dom' = StartSettleDom(dom, resp)
    /\ net' = Remove(net, i)
    /\ event' = [Settled("start-narrative-btn.settle", net[i], resp) EXCEPT
                   !.threw = (resp.outcome = "ok" /\ StartSuccessThrows),
                   !.alert = CASE resp.outcome = "ok" ->
                                    IF StartSuccessThrows
                                    THEN StartErrorAlert \o NullTypeError ELSE ""
                               [] resp.outcome = "fail" -> StartFailedAlert \o resp.error
                               [] OTHER -> StartErrorAlert \o resp.error]
    /\ UNCHANGED <<form, timers>>

\* The action input and the three narrative buttons show inside the
\* narrative view of the home section.
NarrativeShown(d) == SectionShown(d, "home") /\ Shown(d.narrativeView)

NoActionAlert == "enter-your-action"           \* 请输入您的行动
SendBusyLabel == "processing..."               \* 处理中...
SendFailedAlert == "process-action-failed: "   \* 处理行动失败:
SendErrorAlert == "process-action-error: "     \* 处理行动出错:

\* The user types into the action input.
TypeUserAction(v) ==
    /\ UNCHANGED focus
    /\ NarrativeShown(dom)
    /\ dom.userAction # v
    /\ dom' = [dom EXCEPT !.userAction = v]
    /\ event' = Ran("user-action.input")
    /\ UNCHANGED <<form, net, timers>>

\* Faulty variant: the user's entry is put before the first entry.
SendClickDomPrepends(d) ==
    [SetButton(d, "send-action-btn", TRUE, SendBusyLabel) EXCEPT
        !.transcript = <<Entry(SpeakerUser, d.userAction)>> \o @,
        !.userAction = ""]

\* Faulty variant: the listener leaves the send button enabled.
SendClickDomNotBusy(d) ==
    [d EXCEPT !.transcript = Append(@, Entry(SpeakerUser, d.userAction)),
              !.userAction = ""]

\* The send button's click listener on the DOM, past its guard: the button
\* goes busy, the action is appended to the transcript, the input is cleared.
SendClickDom(d) ==
    [SetButton(d, "send-action-btn", TRUE, SendBusyLabel) EXCEPT
        !.transcript = Append(@, Entry(SpeakerUser, d.userAction)),
        !.userAction = ""]

SendActionClick ==
    /\ UNCHANGED focus
    /\ NarrativeShown(dom)
    /\ ~dom.disabled["send-action-btn"]
    /\ IF dom.userAction = ""
       THEN /\ event' = [Ran("send-action-btn.click") EXCEPT !.alert = NoActionAlert]
            /\ UNCHANGED <<dom, net>>
       ELSE /\ Len(net) < MaxPending
            /\ Len(dom.transcript) + 2 <= MaxTranscript
            /\ dom' = SendClickDom(dom)
            /\ net' = Append(net, Request("/process_action", "send-action-btn", 0,
                                          [action |-> dom.userAction], dom))
            /\ event' = [Ran("send-action-btn.click") EXCEPT
                           !.ep = "/process_action", !.issued = TRUE]
    /\ UNCHANGED <<form, timers>>

\* Faulty variant: a failure takes the user's entry back out of the transcript.
SendSettleDomRollsBack(d, resp) ==
    SetButton(IF resp.outcome = "ok"
              THEN [d EXCEPT !.transcript = Append(@, Entry(SpeakerSystem, resp.text))]
              ELSE [d EXCEPT !.transcript = SubSeq(@, 1, Len(@) - 1)],
              "send-action-btn", FALSE, TemplateLabel("send-action-btn"))

\* The then / catch / finally of the send on the DOM.
SendSettleDom(d, resp) ==
    SetButton(IF resp.outcome = "ok"
              THEN [d EXCEPT !.transcript = Append(@, Entry(SpeakerSystem, resp.text))]
              ELSE d,
              "send-action-btn", FALSE, TemplateLabel("send-action-btn"))

SendActionSettle(i, resp) ==
    /\ UNCHANGED focus
    /\ i \in 1 .. Len(net)
    /\ net[i].ep = "/process_action"
    /\ dom' = SendSettleDom(dom, resp)
    /\ net' = Remove(net, i)
    /\ event' = [Settled("send-action-btn.settle", net[i], resp) EXCEPT
                   !.alert = CASE resp.outcome = "ok" -> ""
                               [] resp.outcome = "fail" -> SendFailedAlert \o resp.error
                               [] OTHER -> SendErrorAlert \o resp.error]
    /\ UNCHANGED <<form, timers>>

GameBusyLabel == "saving..."               \* 保存中...
GameSavedAlert == "game-saved"             \* 游戏已保存
GameFailedAlert == "save-game-failed: "    \* 保存游戏失败:
GameErrorAlert == "save-game-error: "      \* 保存游戏出错:

SaveGameClick ==
    /\ UNCHANGED focus
    /\ NarrativeShown(dom)
    /\ ~dom.disabled["save-game-btn"]
    /\ Len(net) < MaxPending
    /\ dom' = SetButton(dom, "save-game-btn", TRUE, GameBusyLabel)
    /\ net' = Append(net, Request("/save_game", "save-game-btn", 0, NoBody, dom))
    /\ event' = [Ran("save-game-btn.click") EXCEPT
                   !.ep = "/save_game", !.issued = TRUE]
    /\ UNCHANGED <<form, timers>>

\* Faulty variant: a saved game is reported in the transcript.
SaveGameSettleDomWritesTranscript(d, resp) ==
    SetButton(IF resp.outcome = "ok"
              THEN [d EXCEPT !.transcript = Append(@, Entry(SpeakerSystem, GameSavedAlert))]
              ELSE d,
              "save-game-btn", FALSE, TemplateLabel("save-game-btn"))

\* Faulty variant: the button is restored in the success branch, not in finally.
SaveGameSettleDomNoFinally(d, resp) ==
    IF resp.outcome = "ok"
    THEN SetButton(d, "save-game-btn", FALSE, TemplateLabel("save-game-btn")) ELSE d

\* Faulty variant: the finally restores the send button along with its own.
SaveGameSettleDomRestoresSend(d, resp) ==
    SetButton(SetButton(d, "save-game-btn", FALSE, TemplateLabel("save-game-btn")),
              "send-action-btn", FALSE, TemplateLabel("send-action-btn"))

\* The finally of the save: the button is restored.
SaveGameSettleDom(d, resp) ==
    SetButton(d, "save-game-btn", FALSE, TemplateLabel("save-game-btn"))

SaveGameSettle(i, resp) ==
    /\ UNCHANGED focus
    /\ i \in 1 .. Len(net)
    /\ net[i].ep = "/save_game"
    /\ dom' = SaveGameSettleDom(dom, resp)
    /\ net' = Remove(net, i)
    /\ event' = [Settled("save-game-btn.settle", net[i], resp) EXCEPT
                   !.alert = CASE resp.outcome = "ok" -> GameSavedAlert
                               [] resp.outcome = "fail" -> GameFailedAlert \o resp.error
                               [] OTHER -> GameErrorAlert \o resp.error]
    /\ UNCHANGED <<form, timers>>

\* The close listener sets the display of getElementById(NarrativeCardId):
\* with no such element it throws and writes nothing.
CloseNarrativeDom(d) ==
    IF HasElement(NarrativeCardId) THEN [d EXCEPT !.narrativeView = "none"] ELSE d

CloseNarrativeClick ==
    /\ UNCHANGED focus
    /\ NarrativeShown(dom)
    /\ dom' = CloseNarrativeDom(dom)
    /\ event' = [Ran("close-narrative-btn.click") EXCEPT
                   !.threw = ~HasElement(NarrativeCardId)]
    /\ UNCHANGED <<form, net, timers>>

DeleteBusyLabel == "deleting..."                \* 删除中...
DeleteFailedAlert == "delete-history-failed: "  \* 删除历史对话失败:
DeleteErrorAlert == "delete-history-error: "    \* 删除历史对话出错:

\* A click on the delete button of conversation i; the user answers the
\* confirm dialog when the path is valid.
DeleteChatClick(i, confirmed) ==
    /\ UNCHANGED focus
    /\ SectionShown(dom, "chat")
    /\ i \in dom.items
    /\ ~dom.deleteBtn[i].disabled
    /\ IF dom.path[i] = ""
       THEN /\ event' = [Ran("delete-chat-btn.click") EXCEPT
                           !.item = i, !.alert = InvalidPathAlert]
            /\ UNCHANGED <<dom, net>>
       ELSE IF ~confirmed
       THEN /\ event' = [Ran("delete-chat-btn.click") EXCEPT !.item = i]
            /\ UNCHANGED <<dom, net>>
       ELSE /\ Len(net) < MaxPending
            /\ dom' = [dom EXCEPT !.deleteBtn[i] =
                         [disabled |-> TRUE, label |-> DeleteBusyLabel]]
            /\ net' = Append(net, Request("/api/history/delete", "delete-chat-btn", i,
                                          [file_path |-> dom.path[i]], dom))
            /\ event' = [Ran("delete-chat-btn.click") EXCEPT
                           !.ep = "/api/history/delete", !.item = i, !.issued = TRUE]
    /\ UNCHANGED <<form, timers>>

\* Faulty variant: the empty-state is appended without looking at the list.
DeleteSuccessDomAlwaysAppends(d, r) ==
    [d EXCEPT !.items = @ \ {r.item}, !.listEmptyStates = @ + 1]

\* The success branch of the delete: the item leaves the list, and an
\* empty-state is appended to the list when no item is left.
DeleteSuccessDom(d, r) ==
    LET left == d.items \ {r.item}
    IN  [d EXCEPT !.items = left,
                  !.listEmptyStates = IF left = {} THEN @ + 1 ELSE @]

\* The then / catch / finally of a delete request on the DOM.
DeleteSettleDom(d, r, resp) ==
    [(IF resp.outcome = "ok" THEN DeleteSuccessDom(d, r) ELSE d) EXCEPT
        !.deleteBtn[r.item] = [disabled |-> FALSE, label |-> DeleteLabel]]

DeleteChatSettle(i, resp) ==
    /\ UNCHANGED focus
    /\ i \in 1 .. Len(net)
    /\ net[i].ep = "/api/history/delete"
    /\ dom' = DeleteSettleDom(dom, net[i], resp)
    /\ net' = Remove(net, i)
    /\ event' = [Settled("delete-chat-btn.settle", net[i], resp) EXCEPT
                   !.alert = CASE resp.outcome = "ok" -> ""
                               [] resp.outcome = "fail" -> DeleteFailedAlert \o resp.error
                               [] OTHER -> DeleteErrorAlert \o resp.error]
    /\ UNCHANGED <<form, timers>>

-----------------------------------------------------------------------------
(* Editing the API configuration: the radios, inputs and selects of the
   api-config section and their change listeners *)

\* The two roles a model is configured for.
Roles == {"analysis", "writing"}

\* The user checks the local (online = FALSE) or the online radio of the
\* API type: its change listener swaps the two groups of inputs.
ApiTypeChange(online) ==
    /\ UNCHANGED focus
    /\ SectionShown(dom, "api-config")
    /\ form.useOnline # online
    /\ form' = [form EXCEPT !.useOnline = online,
                            !.ollamaApiConfig = IF online THEN "none" ELSE "block",
                            !.onlineApiConfig = IF online THEN "block" ELSE "none"]
    /\ event' = Ran("api-type.change")
    /\ UNCHANGED <<dom, net, timers>>

\* The user checks the radio m of the model of a role: its change listener
\* shows the custom settings for custom and hides them otherwise.
ModelChange(role, m) ==
    /\ UNCHANGED focus
    /\ SectionShown(dom, "api-config")
    /\ form[role \o "Model"] # m
    /\ form' = [form EXCEPT ![role \o "Model"] = m,
                            ![role \o "CustomSettings"] =
                                IF m = "custom" THEN "block" ELSE "none"]
    /\ event' = Ran(role \o "-model.change")
    /\ UNCHANGED <<dom, net, timers>>

\* The user checks the radio t of the custom type of a role, which shows
\* inside the custom settings: its change listener swaps the two inputs.
CustomTypeChange(role, t) ==
    /\ UNCHANGED focus
    /\ SectionShown(dom, "api-config")
    /\ Shown(form[role \o "CustomSettings"])
    /\ form[role \o "CustomType"] # t
    /\ form' = [form EXCEPT ![role \o "CustomType"] = t,
                            ![role \o "CustomOllamaSettings"] =
                                IF t = "ollama" THEN "block" ELSE "none",
                            ![role \o "CustomOnlineSettings"] =
                                IF t = "online" THEN "block" ELSE "none"]
    /\ event' = Ran(role \o "-custom-type.change")
    /\ UNCHANGED <<dom, net, timers>>

\* The user types into the Ollama URL input.
TypeOllamaUrl(v) ==
    /\ UNCHANGED focus
    /\ SectionShown(dom, "api-config")
    /\ Shown(form.ollamaApiConfig)
    /\ form.ollamaUrl # v
    /\ form' = [form EXCEPT !.ollamaUrl = v]
    /\ event' = Ran("ollama-api-url.input")
    /\ UNCHANGED <<dom, net, timers>>

\* The user types into the URL and the key input of the online API.
TypeOnlineApi(url, key) ==
    /\ UNCHANGED focus
    /\ SectionShown(dom, "api-config")
    /\ Shown(form.onlineApiConfig)
    /\ <<form.onlineUrl, form.onlineKey>> # <<url, key>>
    /\ form' = [form EXCEPT !.onlineUrl = url, !.onlineKey = key]
    /\ event' = Ran("online-api.input")
    /\ UNCHANGED <<dom, net, timers>>

\* The user types the name of the custom online model of a role.
TypeOnlineName(role, v) ==
    /\ UNCHANGED focus
    /\ SectionShown(dom, "api-config")
    /\ Shown(form[role \o "CustomSettings"])
    /\ Shown(form[role \o "CustomOnlineSettings"])
    /\ form[role \o "OnlineName"] # v
    /\ form' = [form EXCEPT ![role \o "OnlineName"] = v]
    /\ event' = Ran(role \o "-online-model-name.input")
    /\ UNCHANGED <<dom, net, timers>>

\* The user picks option j of the custom Ollama model select of a role.
SelectOllamaModel(role, j) ==
    /\ UNCHANGED focus
    /\ SectionShown(dom, "api-config")
    /\ Shown(form[role \o "CustomSettings"])
    /\ Shown(form[role \o "CustomOllamaSettings"])
    /\ j \in 1 .. Len(dom[role \o "Select"].options)
    /\ dom[role \o "Select"].value # dom[role \o "Select"].options[j]
    /\ dom' = [dom EXCEPT ![role \o "Select"] =
                              [options |-> @.options, value |-> @.options[j]]]
    /\ event' = Ran(role \o "-ollama-model-select.change")
    /\ UNCHANGED <<form, net, timers>>

-----------------------------------------------------------------------------
(* The environment: what the server answers and renders *)

\* The error string of a {success: false, error} answer.
Errors == {"e1"}

\* The error of a rejected fetch or of a body that is not JSON.
NetError == "TypeError: Failed to fetch"

Failures == {Failed(e) : e \in Errors} \cup {Rejected(NetError)}

\* Answers without data, with a text, with a model list.
PlainResponses == {Ok("", <<>>)} \cup Failures

TextResponses == {Ok("t1", <<>>)} \cup Failures

ModelResponses == {Ok("", <<"m2">>), Ok("", <<"m1", "m2">>)} \cup Failures

\* The file names a user submits: none, a text file, another file.
Files == {NoFile, <<"a", ".", "t", "x", "t">>, <<"a", ".", "p", "d", "f">>}

\* The action texts a user types.
ActionTexts == {"", "a1"}

\* The test messages a user types.
TestMessages == {"", "hello"}

\* The server in each application stage; while narrating its transcript may
\* hold an entry already.
StageStates ==
    {[BaseState EXCEPT !.app_stage = st] : st \in Stages}
    \cup {[BaseState EXCEPT !.app_stage = "narrating",
                            !.narrative_history_display =
                                <<Entry(SpeakerSystem, "t0")>>]}

\* A second Ollama server the user may type the URL of.
RemoteOllamaUrl == "http://10.0.0.2:11434"

\* The model list each Ollama server answers a refresh with.
ServedModels(url) ==
    IF url = DefaultOllamaUrl THEN <<"m2">> ELSE <<"m1", "m2">>

\* An idle server with and without an Ollama URL configured.
UrlStates ==
    {[BaseState EXCEPT !.ollama_api_url_config = u] : u \in {"", DefaultOllamaUrl}}

-----------------------------------------------------------------------------
(* Specification *)

(***************************************************************************)
(* A page load is explored with the user working in one part of the page,  *)
(* its focus, besides the side bar: the way from the upload to the start   *)
(* of the narrative, the narrative itself, the start of a journey loaded   *)
(* from the history while narrating (reentry), the model lists, the model  *)
(* lists of two Ollama servers that each answer with their own, the two    *)
(* controls that save the API configuration, the API test, the chat and    *)
(* settings sections, or a history list whose item has no file path.  The  *)
(* side bar, the page-load timer and the history load belong to every      *)
(* focus: a history load writes to the side bar, the home section and the  *)
(* floating save button.                                                   *)
(***************************************************************************)
Focuses ==
    {"journey", "narrative", "reentry", "models", "servers", "save", "test",
     "housekeeping", "nopath"}

\* The server states a page load of each focus starts from.
FocusStates(g) ==
    CASE g = "journey" ->
           {[st EXCEPT !.ollama_api_url_config = "", !.history_conversations = 1] :
                st \in {s \in StageStates : s.app_stage # "narrating"}}
      [] g = "narrative" ->
           {[st EXCEPT !.ollama_api_url_config = "", !.history_conversations = 1] :
                st \in {s \in StageStates : s.app_stage = "narrating"}}
      [] g = "reentry" ->
           {[BaseState EXCEPT !.app_stage = "narrating",
                              !.narrative_history_display =
                                  <<Entry(SpeakerSystem, "t0")>>,
                              !.ollama_api_url_config = "",
                              !.history_conversations = 1]}
      [] g = "models" ->
           {[st EXCEPT !.history_conversations = 1] : st \in UrlStates}
      [] g = "servers" ->
           {[BaseState EXCEPT !.ollama_api_url_config = DefaultOllamaUrl,
                              !.history_conversations = 1]}
      [] g \in {"save", "test"} ->
           {[BaseState EXCEPT !.ollama_api_url_config = "",
                              !.history_conversations = 1]}
      [] g = "nopath" ->
           {[BaseState EXCEPT !.ollama_api_url_config = "",
                              !.history_conversations = 1,
                              !.file_path = [i \in Items |-> ""]]}
      [] g = "housekeeping" ->
           {[BaseState EXCEPT !.ollama_api_url_config = ""]}

Init == \E g \in Focuses : \E srv \in FocusStates(g) : Loaded(srv) /\ focus = g

In(g) == focus = g

Next ==
    \/ \E id \in NavIds : NavItemClick(id)
    \/ LoadTimerFire
    \/ Tick
    \/ \E i \in Items : LoadChatClick(i)
    \/ \E i \in 1 .. MaxPending, resp \in PlainResponses : LoadChatSettle(i, resp)
    \/ In("journey") /\ \E file \in Files : NovelUploadSubmit(file)
    \/ In("journey") /\ \E i \in 1 .. MaxPending, resp \in PlainResponses :
                           NovelUploadSettle(i, resp)
    \/ In("journey") /\ StartNarrativeClick
    \/ In("journey") /\ \E i \in 1 .. MaxPending, resp \in TextResponses :
                           StartNarrativeSettle(i, resp)
    \/ In("narrative") /\ \E v \in ActionTexts : TypeUserAction(v)
    \/ In("narrative") /\ SendActionClick
    \/ In("narrative") /\ \E i \in 1 .. MaxPending, resp \in TextResponses :
                             SendActionSettle(i, resp)
    \/ In("narrative") /\ SaveGameClick
    \/ In("narrative") /\ \E i \in 1 .. MaxPending, resp \in PlainResponses :
                             SaveGameSettle(i, resp)
    \/ In("narrative") /\ CloseNarrativeClick
    \/ In("reentry") /\ StartNarrativeClick
    \/ In("reentry") /\ \E i \in 1 .. MaxPending, resp \in TextResponses :
                           StartNarrativeSettle(i, resp)
    \/ In("reentry") /\ TypeUserAction("a1")
    \/ In("reentry") /\ SendActionClick
    \/ In("reentry") /\ \E i \in 1 .. MaxPending, resp \in TextResponses :
                           SendActionSettle(i, resp)
    \/ In("models") /\ RefreshModelsClick
    \/ In("models") /\ \E i \in 1 .. MaxPending, resp \in ModelResponses :
                          RefreshSettle(i, resp)
    \/ In("servers") /\ TypeOllamaUrl(RemoteOllamaUrl)
    \/ In("servers") /\ RefreshModelsClick
    \/ In("servers") /\ \E i \in 1 .. Len(net) :
                           RefreshSettle(i, Ok("", ServedModels(net[i].body.api_url)))
    \/ In("save") /\ ApiConfigSubmit
    \/ In("save") /\ \E i \in 1 .. MaxPending, resp \in PlainResponses :
                        ApiConfigSettle(i, resp)
    \/ In("save") /\ GlobalSaveClick
    \/ In("save") /\ \E i \in 1 .. MaxPending, resp \in PlainResponses :
                        GlobalSaveSettle(i, resp)
    \/ In("save") /\ ToastTimerFire
    \/ In("test") /\ \E v \in TestMessages : TypeTestMessage(v)
    \/ In("test") /\ TestApiClick
    \/ In("test") /\ \E i \in 1 .. MaxPending, resp \in TextResponses :
                        TestApiSettle(i, resp)
    \/ In("housekeeping") /\ SettingsSubmit
    \/ In("housekeeping") /\ \E i \in 1 .. MaxPending, resp \in PlainResponses :
                                SettingsSettle(i, resp)
    \/ In("housekeeping") /\ \E confirmed \in BOOLEAN : ResetAppClick(confirmed)
    \/ In("housekeeping") /\ \E i \in 1 .. MaxPending, resp \in PlainResponses :
                                \E srv \in FocusStates("housekeeping") :
                                    ResetAppSettle(i, resp, srv)
    \/ In("housekeeping") /\ \E i \in Items, confirmed \in BOOLEAN :
                                DeleteChatClick(i, confirmed)
    \/ In("housekeeping") /\ \E i \in 1 .. MaxPending, resp \in PlainResponses :
                                DeleteChatSettle(i, resp)
    \/ In("nopath") /\ \E i \in Items, confirmed \in BOOLEAN :
                          DeleteChatClick(i, confirmed)

Spec == Init /\ [][Next]_vars

(***************************************************************************)
(* The configuration draft is a function of the inputs of the api-config   *)
(* section.  To cover these inputs, a second specification starts from a   *)
(* page rendered with and without a checked custom type, lets the user     *)
(* edit every input of the section, and applies both collectors: by the    *)
(* floating save button and by the submit event of the form (which the     *)
(* template gives no button; it is dispatched to the listener as such).    *)
(* The user acts while no request is in flight.                            *)
(***************************************************************************)

\* The custom types the server renders: one of the radios, or neither.
RenderedCustomTypes == {"ollama", ""}

ConfigStates ==
    {[BaseState EXCEPT !.ollama_api_url_config = "",
                       !.history_conversations = 1,
                       !.analysis_custom_type = t,
                       !.writing_custom_type = t] : t \in RenderedCustomTypes}

\* What the user types into the inputs.
UrlTexts == {"", DefaultOllamaUrl}

OnlineTexts == {<<"", "">>, <<"https://api", "sk-1">>}

NameTexts == {"", "gpt-4-turbo"}

\* The answers to a refresh of the model list.
CollectModelResponses == {Ok("", <<"m1", "m2">>), Rejected(NetError)}

\* The answer to a collected draft: what the page shows of a saved draft
\* is left to the first specification.
CollectSaveResponses == {Failed("e1")}

Quiet == net = <<>>

InitCollect == \E srv \in ConfigStates : Loaded(srv) /\ focus = "config"

NextCollect ==
    \/ Quiet /\ NavItemClick("api-config")
    \/ \E i \in 1 .. MaxPending, resp \in CollectModelResponses : RefreshSettle(i, resp)
    \/ Quiet /\ \E online \in BOOLEAN : ApiTypeChange(online)
    \/ Quiet /\ \E role \in Roles, m \in ModelNames : ModelChange(role, m)
    \/ Quiet /\ \E role \in Roles, t \in CustomTypes : CustomTypeChange(role, t)
    \/ Quiet /\ \E v \in UrlTexts : TypeOllamaUrl(v)
    \/ Quiet /\ \E v \in OnlineTexts : TypeOnlineApi(v[1], v[2])
    \/ Quiet /\ \E role \in Roles, v \in NameTexts : TypeOnlineName(role, v)
    \/ Quiet /\ \E role \in Roles, j \in 1 .. 2 : SelectOllamaModel(role, j)
    \/ Quiet /\ ApiConfigSubmit
    \/ \E i \in 1 .. MaxPending, resp \in CollectSaveResponses : ApiConfigSettle(i, resp)
    \/ Quiet /\ GlobalSaveClick
    \/ \E i \in 1 .. MaxPending, resp \in CollectSaveResponses : GlobalSaveSettle(i, resp)

SpecCollect == InitCollect /\ [][NextCollect]_vars

(***************************************************************************)
(* The model-name displays of the dashboard are explored with the user     *)
(* switching between the two stock models of either role and saving        *)
(* through one of the two controls, the focus of the page load: every save *)
(* succeeds or fails, the radios change while saves are in flight, saves   *)
(* of the form overlap, and the timers run.                                *)
(***************************************************************************)
StockModels == {"llama3", "mistral"}

SaveControls == {"api-config-form", "global-save-button"}

InitDisplay ==
    \E g \in SaveControls :
        /\ Loaded([BaseState EXCEPT !.ollama_api_url_config = "",
                                    !.history_conversations = 1])
        /\ focus = g

NextDisplay ==
    \/ NavItemClick("api-config")
    \/ LoadTimerFire
    \/ Tick
    \/ \E role \in Roles, m \in StockModels : ModelChange(role, m)
    \/ In("api-config-form") /\ ApiConfigSubmit
    \/ In("api-config-form") /\ \E i \in 1 .. MaxPending, resp \in PlainResponses :
                                   ApiConfigSettle(i, resp)
    \/ In("global-save-button") /\ GlobalSaveClick
    \/ In("global-save-button") /\ \E i \in 1 .. MaxPending, resp \in PlainResponses :
                                      GlobalSaveSettle(i, resp)
    \/ In("global-save-button") /\ ToastTimerFire

SpecDisplay == InitDisplay /\ [][NextDisplay]_vars

-----------------------------------------------------------------------------
(* Properties, part 1: navigation, the floating save button, the controls
   that issue requests and what the page shows when a request fails. *)

IsFailure(resp) == resp.outcome \in {"fail", "neterr"}

\* The requests of the floating save button that are in flight.
SaveInFlight == {i \in 1 .. Len(net) : net[i].src = "global-save-button"}

\* C1: when /start_narrative answers success with initial narrative t, the
\* transcript gains exactly one entry (system, t), the initializing card
\* is hidden and the narrative panel is shown.
C1_StartAppendsAndShowsNarrative ==
    [][(event'.h = "start-narrative-btn.settle" /\ event'.resp.outcome = "ok")
        => /\ dom'.transcript =
                  Append(dom.transcript, Entry(SpeakerSystem, event'.resp.text))
           /\ ~Shown(dom'.initCard)
           /\ Shown(dom'.narrativeView)]_vars

\* C2: at every moment exactly one content section is shown and exactly one
\* nav item is active, the shown section is the one of the active item, and
\* after a page load it is home.
C2_OneSectionOneActive ==
    /\ Cardinality({n \in NavIds : SectionShown(dom, n)}) = 1
    /\ Cardinality({n \in NavIds : dom.active[n]}) = 1
    /\ \A n \in NavIds : dom.active[n] <=> SectionShown(dom, n)
    /\ event.h = "DOMContentLoaded" => dom.active["home"]

\* A history load succeeded while another section was in front.
C2_Witness ==
    /\ event.h = "load-chat-btn.settle"
    /\ event.resp.outcome = "ok"
    /\ dom.active["home"]
    /\ SectionShown(dom, "home")
    /\ ~SectionShown(dom, "chat")

\* C3: the floating save button is shown exactly when the api-config
\* section is shown, also after the home click of a successful history
\* load.
C3_SaveButtonIffApiConfig ==
    Shown(dom.saveButton) <=> SectionShown(dom, "api-config")

\* The user went to the api-config section and the button shows.
C3_Witness ==
    /\ event.h = "nav-item.click"
    /\ SectionShown(dom, "api-config")
    /\ Shown(dom.saveButton)

\* A history load succeeded and took the button away with the section.
C3_WitnessLoad ==
    /\ focus = "save"
    /\ event.h = "load-chat-btn.settle"
    /\ event.resp.outcome = "ok"
    /\ ~Shown(dom.saveButton)

\* C4: at most one request of the floating save button is in flight, and a
\* click while it is saving issues no request and changes nothing.
C4_OneSaveInFlight ==
    /\ [](Cardinality(SaveInFlight) <= 1)
    /\ [][(event'.h = "global-save-button.click" /\ dom.saving)
           => /\ net' = net
              /\ dom' = dom
              /\ form' = form
              /\ timers' = timers]_vars

\* The button was clicked while its request was in flight.
C4_Witness ==
    /\ event.h = "global-save-button.click"
    /\ ~event.issued
    /\ dom.saving
    /\ Cardinality(SaveInFlight) = 1

\* C5: the floating save button is in its saving state exactly while its
\* request is in flight, whatever the outcome of the request.
C5_SavingIffInFlight == dom.saving <=> SaveInFlight # {}

\* A save failed and the button is idle again.
C5_Witness ==
    /\ event.h = "global-save-button.settle"
    /\ IsFailure(event.resp)
    /\ ~dom.saving
    /\ SaveInFlight = {}

\* C6: after every successful floating save the toast stays shown for the
\* whole of ToastMs, also when an earlier save succeeded less than ToastMs
\* before, and it is hidden when no such window is running.
C6_ToastShownForWholeWindow ==
    /\ (\E j \in 1 .. Len(timers.toast) : timers.toast[j] > 0) => dom.toastShown
    /\ timers.toast = <<>> => ~dom.toastShown

\* The label a button shows while its request is in flight.
BusyLabel(b) ==
    CASE b = "test-api-btn"        -> TestBusyLabel
      [] b = "start-narrative-btn" -> StartBusyLabel
      [] b = "send-action-btn"     -> SendBusyLabel
      [] b = "save-game-btn"       -> GameBusyLabel
      [] b = "refresh-models-btn"  -> RefreshBusyLabel

\* The control of request r is disabled and shows its busy label (the
\* floating save button: carries its saving class). The forms and the
\* reset button have no disabled state the scripts ever write: they stay
\* as the template renders them, enabled.
ControlBusy(d, r) ==
    CASE r.src \in Buttons ->
           d.disabled[r.src] /\ d.label[r.src] = BusyLabel(r.src)
      [] r.src = "load-chat-btn" ->
           d.loadBtn[r.item] = [disabled |-> TRUE, label |-> LoadBusyLabel]
      [] r.src = "delete-chat-btn" ->
           d.deleteBtn[r.item] = [disabled |-> TRUE, label |-> DeleteBusyLabel]
      [] r.src = "global-save-button" -> d.saving
      [] OTHER -> FALSE

\* The control that issued the request r is enabled with its own label.
ControlRestored(d, src, item) ==
    CASE src \in Buttons ->
           ~d.disabled[src] /\ d.label[src] = TemplateLabel(src)
      [] src = "load-chat-btn" ->
           d.loadBtn[item] = [disabled |-> FALSE, label |-> LoadLabel]
      [] src = "delete-chat-btn" ->
           d.deleteBtn[item] = [disabled |-> FALSE, label |-> DeleteLabel]
      [] src = "global-save-button" -> ~d.saving
      [] OTHER -> TRUE

\* The controls that are busy for as long as their request is in flight.
BusyWhilePending ==
    {"test-api-btn", "start-narrative-btn", "send-action-btn", "save-game-btn",
     "load-chat-btn", "delete-chat-btn", "global-save-button"}

\* The controls whose listeners never disable anything.
NeverDisabled ==
    {"api-config-form", "settings-form", "reset-app-btn", "novel-upload-form"}

\* C7 as stated: the control of every request in flight (the forms, reset,
\* upload and refresh among them) is disabled with its busy label from the
\* issue of the request until it settles.
C7_EveryControlBusyWhilePending ==
    \A i \in 1 .. Len(net) : ControlBusy(dom, net[i])

\* C7, amended: the test, start, send, save game, history load and history
\* delete buttons and the floating save button are busy from the issue of
\* their request until it settles; the refresh button is busy when a
\* refresh is issued, but only until the first of its requests in flight
\* settles.
C7_SelfDisablingBusyWhilePending ==
    /\ \A i \in 1 .. Len(net) :
           net[i].src \in BusyWhilePending => ControlBusy(dom, net[i])
    /\ \A i \in 1 .. Len(net) :
           net[i].src \notin BusyWhilePending =>
               net[i].src \in NeverDisabled \cup {"refresh-models-btn"}
    /\ (event.issued /\ event.ep = "/api/refresh_ollama_models")
           => dom.disabled["refresh-models-btn"]
              /\ dom.label["refresh-models-btn"] = RefreshBusyLabel

\* A test request is in flight next to another request, its button busy.
C7_Witness ==
    /\ Len(net) = 2
    /\ \E i \in 1 .. Len(net) :
           net[i].src = "test-api-btn" /\ ControlBusy(dom, net[i])
    /\ \E i \in 1 .. Len(net) : net[i].src = "load-chat-btn"

\* C8: when the request of a control that disabled itself settles, whatever
\* the outcome, the control is enabled again and carries its own label.
C8_ControlRestoredOnSettle ==
    event.resp.outcome # "" => ControlRestored(dom, event.src, event.item)

\* A save of the game failed and its button is back.
C8_Witness ==
    /\ event.h = "save-game-btn.settle"
    /\ IsFailure(event.resp)
    /\ ControlRestored(dom, "save-game-btn", 0)

\* /start_narrative answered success and the start button is back.
C8_WitnessStart ==
    /\ event.h = "start-narrative-btn.settle"
    /\ event.resp.outcome = "ok"
    /\ ControlRestored(dom, "start-narrative-btn", 0)

\* The page without the state of the controls that issue requests, the
\* inline text of the test panel and the processing card.
Content(d) ==
    [active |-> d.active, section |-> d.section,
     dashboardView |-> d.dashboardView, narrativeView |-> d.narrativeView,
     initCard |-> d.initCard, transcript |-> d.transcript,
     userAction |-> d.userAction, testMessage |-> d.testMessage,
     testResultDisplay |-> d.testResult.display, items |-> d.items,
     listEmptyStates |-> d.listEmptyStates,
     analysisSelect |-> d.analysisSelect, writingSelect |-> d.writingSelect,
     analysisDisplay |-> d.analysisDisplay, writingDisplay |-> d.writingDisplay,
     saveButton |-> d.saveButton, toastShown |-> d.toastShown]

\* C9 as stated: after a request failed, the transcript and the action
\* input are as they were before the user triggered the request.
C9_FailureRestoresPageBeforeClick ==
    IsFailure(event.resp) => Snapshot(dom) = event.before

\* C9, amended: the handlers of a failed request leave the page as it was
\* when the answer arrived, but for the control they enable again, the
\* inline text of a failed test and the processing card a failed upload
\* hides; what the click did before the request stays: after a failed
\* /process_action the transcript ends with the user's entry and the
\* action input was cleared by the click.
C9_FailureLeavesPageAsAtSettle ==
    /\ [][IsFailure(event'.resp)
           => /\ Content(dom') = Content(dom)
              /\ form' = form
              /\ dom'.processingCard = dom.processingCard
                 \/ (event'.ep = "/upload_novel" /\ dom'.processingCard = "none")
              /\ dom'.testResult.text = dom.testResult.text
                 \/ event'.ep = "/api/test_api"]_vars
    /\ [][(IsFailure(event'.resp) /\ event'.ep = "/process_action")
           => dom'.transcript =
                  Append(event'.before.transcript,
                         Entry(SpeakerUser, event'.before.userAction))]_vars
    /\ [][(event'.h = "send-action-btn.click" /\ event'.issued)
           => dom'.userAction = ""]_vars

\* /process_action failed: the user's entry is still the last of the
\* transcript.
C9_Witness ==
    /\ event.h = "send-action-btn.settle"
    /\ IsFailure(event.resp)
    /\ dom.transcript # event.before.transcript
    /\ dom.transcript[Len(dom.transcript)] = Entry(SpeakerUser, "a1")

\* The texts that precede the error string in an alert or in the test panel.
FailurePrefixes ==
    {LoadFailedAlert, LoadErrorAlert, ConfigFailedAlert, ConfigErrorAlert,
     GlobalFailedAlert, GlobalErrorAlert, TestFailedText, TestErrorText,
     SettingsErrorAlert, ResetErrorAlert, UploadFailedAlert, UploadErrorAlert,
     StartFailedAlert, StartErrorAlert, SendFailedAlert, SendErrorAlert,
     GameFailedAlert, GameErrorAlert, DeleteFailedAlert, DeleteErrorAlert}

\* text is a failure message that carries the error string as it came.
ShowsError(text, error) == \E prefix \in FailurePrefixes : text = prefix \o error

\* What the user gets to see of the settled request: the alert, or the
\* inline text of the test panel.
Surfaced(d, e) ==
    IF e.ep = "/api/test_api" THEN d.testResult.text ELSE e.alert

\* C10 as stated: every failure is shown in an alert or inline, and the
\* error string of a success:false answer is shown as it came.
C10_EveryFailureSurfacedVerbatim ==
    IsFailure(event.resp)
        => /\ Surfaced(dom, event) # ""
           /\ event.resp.outcome = "fail"
                  => ShowsError(Surfaced(dom, event), event.resp.error)

\* The endpoints whose success:false alert is a fixed text.
FixedFailureText == {"/update_settings", "/reset_journey"}

\* C10, amended: but for the refresh of the model list, whose failures go
\* to the console only, every failure is shown in an alert (the API test:
\* inline); the error string of a success:false answer is shown as it
\* came, except by the settings form and the reset button, whose alerts
\* are fixed texts.
C10_FailuresSurfacedButRefresh ==
    IsFailure(event.resp)
        => IF event.ep = "/api/refresh_ollama_models"
           THEN event.alert = "" /\ event.console = "error"
           ELSE /\ Surfaced(dom, event) # ""
                /\ (event.resp.outcome = "fail" /\ event.ep \notin FixedFailureText)
                       => ShowsError(Surfaced(dom, event), event.resp.error)
                /\ (event.resp.outcome = "fail" /\ event.ep = "/update_settings")
                       => event.alert = SettingsFailedAlert
                /\ (event.resp.outcome = "fail" /\ event.ep = "/reset_journey")
                       => event.alert = ResetFailedAlert
                /\ event.resp.outcome = "neterr"
                       => ShowsError(Surfaced(dom, event), event.resp.error)

\* The settings form was answered success:false and alerted its fixed text.
C10_Witness ==
    /\ event.h = "settings-form.settle"
    /\ event.resp.outcome = "fail"
    /\ event.alert = SettingsFailedAlert

\* A refresh of the model list failed without an alert.
C10_WitnessRefresh ==
    /\ event.h = "refreshOllamaModels.settle"
    /\ IsFailure(event.resp)
    /\ event.alert = ""

-----------------------------------------------------------------------------
(* Properties, part 2: the save of the game, the history list, the
   configuration draft, the refresh of the model list and repeated clicks. *)

\* C11: whatever /save_game answers, a network failure included, the
\* handlers of the save button leave the transcript as it is, and the
\* button ends enabled with the label it has in the template.
C11_SaveGameRestoresButtonKeepsTranscript ==
    /\ [][event'.h = "save-game-btn.click"
           => dom'.transcript = dom.transcript]_vars
    /\ [][event'.h = "save-game-btn.settle"
           => /\ dom'.transcript = dom.transcript
              /\ ~dom'.disabled["save-game-btn"]
              /\ dom'.label["save-game-btn"] = TemplateLabel("save-game-btn")]_vars

\* /save_game was rejected by the network: the button is back and the
\* transcript still holds what the page was rendered with.
C11_Witness ==
    /\ event.h = "save-game-btn.settle"
    /\ event.resp.outcome = "neterr"
    /\ ~dom.disabled["save-game-btn"]
    /\ dom.label["save-game-btn"] = TemplateLabel("save-game-btn")
    /\ dom.transcript = event.before.transcript
    /\ dom.transcript # <<>>

\* C12: after a successful /api/history/delete the item is gone from the
\* list; an empty-state is in the list exactly when no item remains, and
\* the list never holds more than one.
C12_EmptyStateIffNoItemLeft ==
    /\ (event.h = "delete-chat-btn.settle" /\ event.resp.outcome = "ok")
           => /\ event.item \notin dom.items
              /\ dom.listEmptyStates >= 1 <=> dom.items = {}
    /\ dom.listEmptyStates <= 1

\* The last of several items was deleted and the empty-state shows.
C12_Witness ==
    /\ event.h = "delete-chat-btn.settle"
    /\ event.resp.outcome = "ok"
    /\ dom.items = {}
    /\ dom.listEmptyStates = 1

\* One of several items was deleted and the list shows no empty-state.
C12_WitnessItemLeft ==
    /\ event.h = "delete-chat-btn.settle"
    /\ event.resp.outcome = "ok"
    /\ dom.items # {}
    /\ dom.listEmptyStates = 0

\* The drafts on their way to /api/update_api_config.
Drafts ==
    {net[i].body : i \in {j \in 1 .. Len(net) : net[j].ep = "/api/update_api_config"}}

\* The draft the last listener collected and sent.
LastDraft == net[Len(net)].body

Collected(h) == event.h = h /\ event.issued

Carries(draft, names) == names \subseteq DOMAIN draft

Lacks(draft, names) == names \cap DOMAIN draft = {}

OllamaBranch == {"ollama_api_url", "selected_ollama_model"}

OnlineBranch == {"online_api_url", "online_api_key", "online_api_model"}

C13_WitnessForm ==
    /\ Collected("api-config-form.submit")
    /\ ~LastDraft.use_online_api
    /\ LastDraft.ollama_api_url # ""

\* The custom model fields of a role that a draft holds.
CustomModelFields(draft, role) ==
    {role \o "_custom_ollama_model", role \o "_custom_online_model"} \cap DOMAIN draft

IsCustom(draft, role) ==
    /\ (role \o "_model_name") \in DOMAIN draft
    /\ draft[role \o "_model_name"] = "custom"

\* C14: a draft whose model of a role is custom holds exactly one of the
\* custom Ollama model and the custom online model of that role, also when
\* neither custom-type radio is checked.
C14_CustomDraftHoldsOneCustomModel ==
    \A draft \in Drafts : \A role \in Roles :
        IsCustom(draft, role) => Cardinality(CustomModelFields(draft, role)) = 1

\* C15: collecting never fails, and a field whose element is absent or
\* whose input is empty is the empty string in the draft.
C15_CollectNeverFailsEmptyIsEmpty ==
    /\ event.h = "api-config-form.submit" => ~event.threw /\ event.issued
    /\ \A draft \in Drafts :
           /\ (~draft.use_online_api /\ form.ollamaUrl = "")
                  => draft.ollama_api_url = ""
           /\ (draft.use_online_api /\ ~HasElement("online-model-name"))
                  => draft.online_api_model = ""

\* The inputs for which the two collectors agree: the form's listener does
\* not throw, and the Ollama URL is not empty.
CollectorsAgree(f) == ~FormCollectThrows(f) /\ f.ollamaUrl # ""

C16_WitnessDefaultUrl ==
    /\ Collected("global-save-button.click")
    /\ form.ollamaUrl = ""
    /\ ~FormCollectThrows(form)
    /\ LastDraft # collectFormConfig(dom, form)

-----------------------------------------------------------------------------
(* Properties, part 3: requests and the controls that issue them *)

\* The step is a click on a nav item, and it selects the api-config item.
NavClickStep == event'.h = "nav-item.click"

SelectsApiConfig == dom'.active["api-config"]

\* The step adds exactly one request, to the model refresh endpoint.
IssuesRefresh ==
    /\ Len(net') = Len(net) + 1
    /\ SubSeq(net', 1, Len(net)) = net
    /\ net'[Len(net')].ep = "/api/refresh_ollama_models"

\* C18: every selection of the api-config nav item issues a POST to
\* /api/refresh_ollama_models, and the selection of any other nav item
\* issues no request.
C18_ApiConfigNavAlwaysRefreshes ==
    [][NavClickStep => IF SelectsApiConfig THEN IssuesRefresh ELSE net' = net]_vars

\* C18, amended: the selection of the api-config nav item issues the POST
\* exactly when the Ollama URL input is not empty; with an empty input it
\* only logs to the console.  Any other nav item issues no request.
C18_ApiConfigNavRefreshesIffUrl ==
    [][NavClickStep =>
           IF SelectsApiConfig /\ form.ollamaUrl # ""
           THEN IssuesRefresh /\ net'[Len(net')].body = [api_url |-> form.ollamaUrl]
           ELSE net' = net /\ (SelectsApiConfig => event'.console = "log")]_vars

C18_Witness ==
    /\ event.h = "nav-item.click"
    /\ dom.active["api-config"]
    /\ event.issued
    /\ net # <<>>
    /\ net[Len(net)].ep = "/api/refresh_ollama_models"

C18_WitnessSkipped ==
    /\ event.h = "nav-item.click"
    /\ dom.active["api-config"]
    /\ form.ollamaUrl = ""
    /\ event.console = "log"
    /\ ~event.issued

\* The controls of the page that issue requests, one per history item for
\* the load and delete buttons.
ControlKeys ==
    {<<b, 0>> : b \in Buttons \cup {"global-save-button"}}
        \cup {<<b, i>> : b \in {"load-chat-btn", "delete-chat-btn"}, i \in Items}

\* The requests of control k in flight in n.
InFlight(n, k) == {i \in 1 .. Len(n) : n[i].src = k[1] /\ n[i].item = k[2]}

\* The control k takes no click (the floating save button: carries the
\* saving class its listener tests).
ControlDisabled(d, k) ==
    CASE k[1] \in Buttons -> d.disabled[k[1]]
      [] k[1] = "load-chat-btn" -> d.loadBtn[k[2]].disabled
      [] k[1] = "delete-chat-btn" -> d.deleteBtn[k[2]].disabled
      [] k[1] = "global-save-button" -> d.saving

\* A step that leaves a request of the disabled control k in flight leaves
\* k disabled.
StaysDisabled(k) ==
    (InFlight(net, k) # {} /\ InFlight(net', k) # {} /\ ControlDisabled(dom, k))
        => ControlDisabled(dom', k)

\* C19: a control that disables itself stays disabled for as long as a
\* request it issued is in flight, whatever else happens: the settling of
\* another request, a nav click, a timer.
C19_StaysDisabledWhilePending ==
    [][\A k \in ControlKeys : StaysDisabled(k)]_vars

\* C19, amended: the same for every such control but the refresh button,
\* which the finally of any refresh request enables while another refresh
\* request is still in flight.
C19_StaysDisabledButRefresh ==
    [][\A k \in ControlKeys : k[1] # "refresh-models-btn" => StaysDisabled(k)]_vars

\* The send request is still in flight after a save of the game settled,
\* and the send button is still disabled.
C19_Witness ==
    /\ event.h = "save-game-btn.settle"
    /\ InFlight(net, <<"send-action-btn", 0>>) # {}
    /\ ControlDisabled(dom, <<"send-action-btn", 0>>)

\* A refresh request is in flight and the refresh button takes clicks.
C19_WitnessRefresh ==
    /\ InFlight(net, <<"refresh-models-btn", 0>>) # {}
    /\ event.h = "refreshOllamaModels.settle"
    /\ ~ControlDisabled(dom, <<"refresh-models-btn", 0>>)

\* The buttons that go disabled for the time of their request.
SelfDisablingKeys ==
    {k \in ControlKeys : k[1] \in BusyWhilePending \ {"global-save-button"}}

\* C20: the send, save game, start, test, history load and history delete
\* buttons still take a click while their request is in flight, so that a
\* second click issues a second, overlapping request; the floating save
\* button alone ignores it.
C20_ButtonsTakeSecondClick ==
    \A k \in SelfDisablingKeys : InFlight(net, k) # {} => ~ControlDisabled(dom, k)

\* C20, amended: each of these buttons is disabled while its request is in
\* flight, so that no second click reaches its listener and it has one
\* request in flight at most, as has the floating save button, whose
\* listener returns on the saving class.
C20_OneRequestPerButton ==
    /\ \A k \in SelfDisablingKeys \cup {<<"global-save-button", 0>>} :
           /\ Cardinality(InFlight(net, k)) <= 1
           /\ InFlight(net, k) # {} => ControlDisabled(dom, k)
    /\ [][\A k \in SelfDisablingKeys :
              InFlight(net, k) # {} =>
                  Cardinality(InFlight(net', k)) <= Cardinality(InFlight(net, k))]_vars

\* A send request is in flight, its button disabled, and the user has
\* typed the next action.
C20_Witness ==
    /\ InFlight(net, <<"send-action-btn", 0>>) # {}
    /\ ControlDisabled(dom, <<"send-action-btn", 0>>)
    /\ dom.userAction # ""
    /\ Len(dom.transcript) + 2 <= MaxTranscript
    /\ Len(net) < MaxPending

\* Two requests of the settings form, which disables nothing, overlap.
C20_WitnessOverlap ==
    Cardinality({i \in 1 .. Len(net) : net[i].src = "settings-form"}) = 2

-----------------------------------------------------------------------------
(* Properties, part 4: the transcript, the lists and the panels *)

\* The sequence s begins with the sequence p.
IsPrefix(p, s) == Len(p) <= Len(s) /\ SubSeq(s, 1, Len(p)) = p

\* The step is a reload of the page, which ends the page session.
ReloadStep == event'.h = "reset-app-btn.settle" /\ event'.resp.outcome = "ok"

\* C21: within one page session the transcript is append-only: every
\* handler step leaves the previous transcript as a prefix of the new one.
C21_TranscriptAppendOnly ==
    [][~ReloadStep => IsPrefix(dom.transcript, dom'.transcript)]_vars

\* A sent action was answered: the transcript the page was rendered with
\* is followed by the user's entry and the system's entry.
C21_Witness ==
    /\ event.h = "send-action-btn.settle"
    /\ event.resp.outcome = "ok"
    /\ Len(dom.transcript) = 3
    /\ dom.transcript[1] = Entry(SpeakerSystem, "t0")
    /\ dom.transcript[2].speaker = SpeakerUser
    /\ dom.transcript[3].speaker = SpeakerSystem

\* The step is the settling of a refresh request.
RefreshSettleStep == event'.h = "refreshOllamaModels.settle"

\* C22: a successful refresh with model list M leaves in both model select
\* lists exactly the models of M in order, all earlier options removed; a
\* failed refresh leaves both lists as they were.
C22_RefreshRepopulatesBothSelects ==
    [][RefreshSettleStep =>
           IF event'.resp.outcome = "ok"
           THEN /\ dom'.analysisSelect.options = event'.resp.models
                /\ dom'.writingSelect.options = event'.resp.models
           ELSE /\ dom'.analysisSelect = dom.analysisSelect
                /\ dom'.writingSelect = dom.writingSelect]_vars

\* A refresh answered with one model, fewer than the lists held.
C22_Witness ==
    /\ event.h = "refreshOllamaModels.settle"
    /\ event.resp.outcome = "ok"
    /\ event.resp.models = <<"m2">>
    /\ dom.analysisSelect.options = <<"m2">>
    /\ dom.writingSelect.options = <<"m2">>

\* A refresh failed after an earlier one had filled the lists.
C22_WitnessFailed ==
    /\ event.h = "refreshOllamaModels.settle"
    /\ IsFailure(event.resp)
    /\ dom.analysisSelect.options = <<"m1", "m2">>

\* The upload requests in flight.
UploadsInFlight(n) == {i \in 1 .. Len(n) : n[i].ep = "/upload_novel"}

\* The step is the settling of an upload request.
UploadSettleStep == event'.h = "novel-upload-form.settle"

\* On the settling of an upload every outcome hides the processing card,
\* and success alone shows the initializing card.
UploadSettleHides ==
    UploadSettleStep =>
        /\ ~Shown(dom'.processingCard)
        /\ IF event'.resp.outcome = "ok" THEN Shown(dom'.initCard)
           ELSE dom'.initCard = dom.initCard

\* C23: the processing card is shown from the submit of a valid upload
\* until its /upload_novel request settles, and is hidden after every
\* outcome; the upload shows the initializing card on success only.
C23_ProcessingShownUntilSettled ==
    /\ [](\A i \in UploadsInFlight(net) : Shown(dom.processingCard))
    /\ [][UploadSettleHides]_vars

\* C23, amended: the submit of a valid upload shows the processing card,
\* the settling of any upload request hides it, whatever the outcome and
\* whether or not another upload is still in flight, and nothing else hides
\* it; the upload shows the initializing card on success only.
C23_ProcessingShownUntilFirstSettle ==
    [][/\ (event'.h = "novel-upload-form.submit" /\ event'.issued)
            => Shown(dom'.processingCard)
       /\ UploadSettleHides
       /\ (Shown(dom.processingCard) /\ ~Shown(dom'.processingCard))
            => UploadSettleStep \/ ReloadStep]_vars

\* A failed upload settled: the processing card is hidden and the
\* initializing card is as hidden as before.
C23_Witness ==
    /\ event.h = "novel-upload-form.settle"
    /\ IsFailure(event.resp)
    /\ ~Shown(dom.processingCard)
    /\ ~Shown(dom.initCard)
    /\ UploadsInFlight(net) = {}

\* One of two overlapping uploads settled: the other is in flight and the
\* processing card is hidden.
C23_WitnessOverlap ==
    /\ event.h = "novel-upload-form.settle"
    /\ UploadsInFlight(net) # {}
    /\ ~Shown(dom.processingCard)

\* The step is the settling of a history load.
LoadSettleStep == event'.h = "load-chat-btn.settle"

\* C24: after a successful history load the home section is the only
\* section shown, the home nav item is the active one and the initializing
\* card is shown; a failed load changes none of the sections, the active
\* item and the card.
C24_LoadSuccessShowsHomeAndCard ==
    [][LoadSettleStep =>
           IF event'.resp.outcome = "ok"
           THEN /\ \A n \in NavIds : SectionShown(dom', n) <=> n = "home"
                /\ \A n \in NavIds : dom'.active[n] <=> n = "home"
                /\ Shown(dom'.initCard)
           ELSE /\ dom'.section = dom.section
                /\ dom'.active = dom.active
                /\ dom'.initCard = dom.initCard]_vars

\* A load issued from the chat section succeeded: the initializing card
\* shows in the home section.
C24_Witness ==
    /\ event.h = "load-chat-btn.settle"
    /\ event.resp.outcome = "ok"
    /\ Shown(dom.initCard)
    /\ \A n \in NavIds : SectionShown(dom, n) <=> n = "home"

\* A load failed: the chat section is still in front, the card hidden.
C24_WitnessFailed ==
    /\ event.h = "load-chat-btn.settle"
    /\ IsFailure(event.resp)
    /\ SectionShown(dom, "chat")
    /\ dom.active["chat"]
    /\ ~Shown(dom.initCard)

\* The step is the settling of a save of the API configuration.
ConfigSettleStep ==
    event'.h \in {"api-config-form.settle", "global-save-button.settle"}

ConfigSettleStepDone ==
    event.h \in {"api-config-form.settle", "global-save-button.settle"}

\* The step settles request i, and both displays show the model names of
\* its draft.
ShowsDraftOf(i) ==
    /\ net' = Remove(net, i)
    /\ net[i].src = event'.src
    /\ {"analysis_model_name", "writing_model_name"} \subseteq DOMAIN net[i].body
    /\ dom'.analysisDisplay = net[i].body.analysis_model_name
    /\ dom'.writingDisplay = net[i].body.writing_model_name

\* C25: after a successful save of the API configuration the two model
\* displays of the dashboard show the analysis and the writing model of the
\* draft sent in that request; after a failed save both are unchanged.
C25_DisplaysShowSentDraft ==
    [][ConfigSettleStep =>
           IF event'.resp.outcome = "ok"
           THEN \E i \in 1 .. Len(net) : ShowsDraftOf(i)
           ELSE /\ dom'.analysisDisplay = dom.analysisDisplay
                /\ dom'.writingDisplay = dom.writingDisplay]_vars

\* A save through the floating button succeeded, and the displays show
\* models other than the template's.
C25_Witness ==
    /\ event.h = "global-save-button.settle"
    /\ event.resp.outcome = "ok"
    /\ dom.analysisDisplay = "mistral"
    /\ dom.writingDisplay = "llama3"

\* A save through the form succeeded after the user had changed the radio
\* again: the display shows the draft sent, not the radio.
C25_WitnessSentDraft ==
    /\ event.h = "api-config-form.settle"
    /\ event.resp.outcome = "ok"
    /\ dom.analysisDisplay = "mistral"
    /\ form.analysisModel = "llama3"

\* A save failed, and the displays still show what an earlier save wrote.
C25_WitnessFailed ==
    /\ ConfigSettleStepDone
    /\ IsFailure(event.resp)
    /\ dom.writingDisplay = "mistral"

\* The /process_action requests in flight.
SendsInFlight(n) == {i \in 1 .. Len(n) : n[i].ep = "/process_action"}

\* The step settles the send request i with success: the system's entry is
\* appended right after the user's entry of the action sent in i.
AnswersRightAfter(i) ==
    /\ net[i].ep = "/process_action"
    /\ net' = Remove(net, i)
    /\ dom.transcript # <<>>
    /\ dom.transcript[Len(dom.transcript)] = Entry(SpeakerUser, net[i].body.action)
    /\ dom'.transcript =
           Append(dom.transcript, Entry(SpeakerSystem, event'.resp.text))

C26_WitnessStart ==
    /\ event.h = "start-narrative-btn.settle"
    /\ event.resp.outcome = "ok"
    /\ SendsInFlight(net) # {}
    /\ dom.transcript = <<Entry(SpeakerSystem, "t0"), Entry(SpeakerUser, "a1")>>

\* The refresh requests in flight.
RefreshesInFlight(n) ==
    {i \in 1 .. Len(n) : n[i].ep = "/api/refresh_ollama_models"}

RefreshSettleStepDone == event.h = "refreshOllamaModels.settle"

\* Both model lists hold the models m.
ListsHold(d, m) == d.analysisSelect.options = m /\ d.writingSelect.options = m

\* With two servers the user goes from the rendered URL to the remote one
\* and never back, so that every request for the remote server was issued
\* after every request for the rendered one; and the lists hold the remote
\* server's models only after a request for it was answered.
RemoteAnswered(d) == ListsHold(d, ServedModels(RemoteOllamaUrl))

\* C27: when refresh requests overlap, after all of them have settled the
\* model lists hold the models returned for the most recently issued
\* request, whatever the order of the responses: once the request for the
\* remote server was answered, the settling of the last request in flight
\* leaves the remote server's models in the lists.
C27_LatestRequestWins ==
    [][(/\ focus = "servers"
        /\ RefreshSettleStep
        /\ RefreshesInFlight(net') = {}
        /\ RemoteAnswered(dom))
           => RemoteAnswered(dom')]_vars

\* What the listeners do instead: the lists hold the models of the
\* successful response that arrived last, also when its request was issued
\* before the others; a failed response leaves them as they are.
C27_LatestResponseWins ==
    /\ [](RefreshSettleStepDone /\ event.resp.outcome = "ok"
             => ListsHold(dom, event.resp.models))
    /\ [][(RefreshSettleStep /\ event'.resp.outcome # "ok")
             => /\ dom'.analysisSelect.options = dom.analysisSelect.options
                /\ dom'.writingSelect.options = dom.writingSelect.options]_vars

\* The request for the remote server was answered first; the older request
\* for the rendered server is still in flight.
C27_Witness ==
    /\ focus = "servers"
    /\ RefreshSettleStepDone
    /\ RemoteAnswered(dom)
    /\ \E i \in RefreshesInFlight(net) : net[i].body.api_url = DefaultOllamaUrl

\* All requests have settled and the lists hold the models of the rendered
\* server, whose response arrived last, while the URL input names the
\* remote server.
C27_WitnessStale ==
    /\ focus = "servers"
    /\ RefreshSettleStepDone
    /\ net = <<>>
    /\ form.ollamaUrl = RemoteOllamaUrl
    /\ ListsHold(dom, ServedModels(DefaultOllamaUrl))

\* The full-screen overlays that are visible: both lie in the home section
\* and show with it.
VisibleOverlays(d) ==
    {c \in {"processing-card", "initializing-narrative-card"} :
        /\ SectionShown(d, "home")
        /\ Shown(IF c = "processing-card" THEN d.processingCard ELSE d.initCard)}

\* C28: in every reachable state at most one of the processing overlay and
\* the initializing-narrative overlay is visible.
C28_OneOverlayVisible == Cardinality(VisibleOverlays(dom)) <= 1

\* A history load succeeded while an upload was in flight: both overlays
\* are visible.
C28_BothVisibleAfterLoad ==
    /\ event.h = "load-chat-btn.settle"
    /\ event.resp.outcome = "ok"
    /\ UploadsInFlight(net) # {}
    /\ Cardinality(VisibleOverlays(dom)) = 2

\* The listeners that test their input, or ask for confirmation, before
\* they do anything.
GuardedListeners ==
    {"send-action-btn.click", "test-api-btn.click", "novel-upload-form.submit",
     "load-chat-btn.click", "delete-chat-btn.click", "reset-app-btn.click"}

\* The body of request r is one that the guard of its listener lets pass.
PassesGuard(r) ==
    CASE r.ep = "/process_action" -> r.body.action # ""
      [] r.ep = "/api/test_api" -> r.body.message # ""
      [] r.ep = "/upload_novel" ->
           /\ Len(r.body.novel_file) >= 4
           /\ \A j \in 1 .. 4 :
                  r.body.novel_file[Len(r.body.novel_file) - 4 + j] = DotTxt[j]
      [] r.ep \in {"/api/history/load", "/api/history/delete"} ->
           r.body.file_path # ""
      [] OTHER -> TRUE

\* C29: a trigger that fails its local guard issues no request and changes
\* nothing in the DOM: an empty action or test message, no file or a file
\* not named .txt, a history item without a file path, a declined
\* confirmation of reset or delete.
C29_FailedGuardDoesNothing ==
    /\ [](\A i \in 1 .. Len(net) : PassesGuard(net[i]))
    /\ [][(event'.h \in GuardedListeners /\ ~event'.issued)
             => dom' = dom /\ form' = form /\ net' = net]_vars

\* A file that is not a text file was submitted while an upload was in
\* flight: the listener alerted and the request in flight is the only one.
C29_Witness ==
    /\ event.h = "novel-upload-form.submit"
    /\ event.alert = NotTxtAlert
    /\ ~event.issued
    /\ Len(net) = 1

\* The delete button of an item without a file path was clicked.
C29_WitnessNoPath ==
    /\ event.h = "delete-chat-btn.click"
    /\ event.alert = InvalidPathAlert
    /\ ~event.issued

\* The load button of an item without a file path was clicked.
C29_WitnessNoPathLoad ==
    /\ event.h = "load-chat-btn.click"
    /\ event.alert = InvalidPathAlert

\* The confirmation of a delete was declined.
C29_WitnessDeclined ==
    /\ event.h = "delete-chat-btn.click"
    /\ event.alert = ""
    /\ ~event.issued
    /\ dom.items = Items

\* The send button was clicked with an empty input, the test button with
\* an empty message.
C29_WitnessEmptyAction == event.alert = NoActionAlert

C29_WitnessEmptyMessage == event.alert = NoTestMessageAlert

\* C30: a click on the close-narrative button hides the narrative panel
\* that holds the transcript.
C30_CloseHidesNarrative ==
    [][event'.h = "close-narrative-btn.click" => ~Shown(dom'.narrativeView)]_vars

\* The close listener ran and threw: the narrative panel is shown as
\* before.
C30_CloseThrew ==
    /\ event.h = "close-narrative-btn.click"
    /\ event.threw
    /\ NarrativeShown(dom)

=============================================================================
